---- MODULE Spec2Model ----
(***************************************************************************)
(* Model of the OutSystems MCP server's orchestration core:                *)
(*   - withRetry, pollWithBackoff (utils/apiClient) and pollWithYield      *)
(*   - the token cache getValidOutSystemsToken (stdio and worker variants) *)
(*   - the job orchestrator createAndDeployApp                             *)
(* Each component is an explicit state machine whose steps are the code's  *)
(* suspension points (await / yield / setTimeout).                         *)
(***************************************************************************)
EXTENDS Integers, Sequences, FiniteSets, TLC

VARIABLES
    \* ---- withRetry (one invocation) ----
    rpc,           \* "idle" | "call" | "inflight" | "sleep" | "returned" | "raised"
    maxRetries,    \* parameter maxRetries
    initialDelay,  \* parameter initialDelay (ms)
    attempt,       \* loop variable attempt
    lastError,     \* local lastError
    rsettled,      \* value returned / error raised by withRetry
    rcalls,        \* number of times fn() has been called
    rsleeps,       \* delays (ms) passed to setTimeout, in order
    thrown,        \* errors thrown by the attempts of fn, in order
    \* ---- pollWithBackoff / pollWithYield (one invocation) ----
    ppc,           \* "idle" | "call" | "inflight" | "yield" | "sleep" | "returned" | "raised"
    pvariant,      \* "backoff" (pollWithBackoff) | "yield" (pollWithYield)
    onProgress,    \* TRUE iff an onProgress observer was supplied
    maxAttempts,   \* option maxAttempts
    initialInterval, \* option initialInterval (ms)
    maxInterval,   \* option maxInterval (ms)
    checkFn,       \* the statuses on which checkFn(result) is true
    failFn,        \* the statuses on which failFn(result) is true
    interval,      \* local interval, a JS number: <<numerator, denominator>>
    attempts,      \* local attempts
    psettled,      \* result returned / error raised by the poll loop
    pcalls,        \* number of times pollFn() has been called
    presults,      \* results pollFn resolved with, in order
    psleeps,       \* intervals passed to setTimeout, in order
    pprogress,     \* onProgress invocations <<result, attempt>>, in order
    pyields,       \* progress messages yielded <<attempt, maxAttempts>>, in order
    \* ---- token cache (token-manager / token-manager.worker) ----
    tvariant,      \* "stdio" | "worker"
    envCreds,      \* worker: OS_HOSTNAME, OS_USERNAME and OS_PASSWORD are all set
    clock,         \* Math.floor(Date.now() / 1000)
    cachedToken,   \* module variable cachedToken: NullToken or [token, expiresAt]
    tcall,         \* per caller: its current / last getValidOutSystemsToken call
    exch,          \* per caller: the getOutsystemsToken exchange of that call
    nexch,         \* number of exchanges started so far
    completed,     \* what the successfully completed exchanges returned
    auth,          \* getOutsystemsToken: one exchange, hop by hop
    srv,           \* the server front end: runtime configuration, OS_DEV_ENVID,
                   \* MCP_SERVER_SECRET, the latest tool call / HTTP request
    \* ---- createAndDeployApp (one run) and the remote API ----
    hostSet,       \* OS_HOSTNAME / env.OS_HOSTNAME is configured
    pc,            \* where the generator is suspended (yield or await)
    yields,        \* messages yielded by createAndDeployApp itself, in order
    rout,          \* "running" | "done" | "raised"
    rraised,       \* message of the error the generator raised
    caught,        \* the error handed to sanitizeErrorMessage
    token,         \* local token
    hasJobId,      \* local jobId is set
    applicationKey, \* local applicationKey is set
    publicationKey, \* local publicationKey is set
    inflight,      \* requests issued and not yet settled: <<kind, timeout ms>>
    timers,        \* deadline timers armed and not yet cleared: <<kind, ms>>
    lastReq,       \* the latest settled request(): what the network did, its outcome
    netlog,        \* remote calls [kind, out], consecutive equal entries merged
    remoteJob,     \* status of the generation job on the remote side
    remotePub,     \* status of the publication on the remote side
    remoteDone     \* requests of the withRetry invocation in progress that the
                   \* remote side has processed

retryVars == <<rpc, maxRetries, initialDelay, attempt, lastError, rsettled,
               rcalls, rsleeps, thrown>>

pollVars == <<ppc, pvariant, onProgress, maxAttempts, initialInterval,
              maxInterval, checkFn, failFn, interval, attempts, psettled,
              pcalls, presults, psleeps, pprogress, pyields>>

tokenVars == <<tvariant, envCreds, clock, cachedToken, tcall, exch, nexch, completed, auth,
               srv>>

runVars == <<hostSet, pc, yields, rout, rraised, caught, token, hasJobId, applicationKey,
             publicationKey, inflight, timers, lastReq, netlog, remoteJob, remotePub, remoteDone>>

vars == <<retryVars, pollVars, tokenVars, runVars>>

NoValue == [cls |-> "undefined", status |-> 0, id |-> 0]

----------------------------------------------------------------------------
(* Errors and values.  Every thrown error / returned value is an object;   *)
(* `id` is its identity (the ordinal of the call that produced it).        *)

ApiError(status, id)  == [cls |-> "ApiError", status |-> status, id |-> id]
TimeoutError(id)      == [cls |-> "TimeoutError", status |-> 0, id |-> id]
NetworkError(id)      == [cls |-> "TypeError", status |-> 0, id |-> id]
Value(id)             == [cls |-> "Value", status |-> 0, id |-> id]
\* A parsed response body.
Result(id, body)      == [cls |-> "Value", status |-> 0, id |-> id, body |-> body]

\* Statuses an ApiError may carry (response.ok is false outside 200..299).
ErrorStatuses == {302, 400, 401, 404, 429, 499, 500, 503}

\* What one call of the operation can settle with.
FnOutcomes(id) ==
    {Value(id), TimeoutError(id), NetworkError(id)}
        \cup {ApiError(s, id) : s \in ErrorStatuses}

IsError(x) == x.cls \in {"ApiError", "TimeoutError", "TypeError", "SyntaxError", "Error"}

RECURSIVE Pow(_, _)
Pow(b, n) == IF n = 0 THEN 1 ELSE b * Pow(b, n - 1)

----------------------------------------------------------------------------
(* withRetry                                                               *)

DefaultMaxRetries == 3
DefaultInitialDelay == 1000

\* Largest maxRetries the harness passes.
MaxRetriesBound == 4
InitialDelays == {0, 250, DefaultInitialDelay}

\* The non-retryable test of the catch block.
NonRetryableMutantNever(error) == FALSE
NonRetryable(error) ==
    /\ error.cls = "ApiError"
    /\ error.status >= 400 /\ error.status < 500 /\ error.status # 429

\* delay = initialDelay * Math.pow(2, attempt)
RetryDelayMutantLinear(delay0, att) == delay0 * (att + 1)
RetryDelay(delay0, att) == delay0 * Pow(2, att)

\* withRetry(fn, mr, d) is invoked: locals are initialised, the for loop is
\* entered (attempt = 0 < maxRetries) or skipped (throw lastError!).
RetryInvoke(mr, d) ==
    /\ rpc = "idle"
    /\ maxRetries' = mr
    /\ initialDelay' = d
    /\ attempt' = 0
    /\ lastError' = NoValue
    /\ rcalls' = 0
    /\ rsleeps' = <<>>
    /\ thrown' = <<>>
    /\ IF 0 < mr
         THEN rpc' = "call" /\ rsettled' = NoValue
         ELSE rpc' = "raised" /\ rsettled' = NoValue

\* `await fn()` : the operation is called.
RetryCall ==
    /\ rpc = "call"
    /\ rpc' = "inflight"
    /\ rcalls' = rcalls + 1
    /\ UNCHANGED <<maxRetries, initialDelay, attempt, lastError, rsettled,
                   rsleeps, thrown>>

\* `if (attempt === maxRetries - 1)`
LastAttemptMutantEarly(att, mr) == att >= mr - 2
LastAttempt(att, mr) == att = mr - 1

\* `throw error` in the catch block: the caught object itself.
RethrowMutantWrapped(error) == [error EXCEPT !.cls = "Error"]
Rethrow(error) == error

\* The pending call settles with `outcome`: return on success, otherwise the
\* catch block.
RetrySettle(outcome) ==
    /\ rpc = "inflight"
    /\ IF ~IsError(outcome)
         THEN /\ rpc' = "returned"
              /\ rsettled' = outcome
              /\ UNCHANGED <<lastError, rsleeps, thrown>>
         ELSE /\ lastError' = outcome
              /\ thrown' = Append(thrown, outcome)
              /\ IF NonRetryable(outcome) \/ LastAttempt(attempt, maxRetries)
                   THEN /\ rpc' = "raised"
                        /\ rsettled' = Rethrow(outcome)
                        /\ UNCHANGED rsleeps
                   ELSE /\ rpc' = "sleep"
                        /\ rsleeps' = Append(rsleeps, RetryDelay(initialDelay, attempt))
                        /\ UNCHANGED rsettled
    /\ UNCHANGED <<maxRetries, initialDelay, attempt, rcalls>>

\* The setTimeout of the catch block fires: attempt++ and the loop test.
RetryWake ==
    /\ rpc = "sleep"
    /\ attempt' = attempt + 1
    /\ IF attempt + 1 < maxRetries
         THEN rpc' = "call" /\ UNCHANGED rsettled
         ELSE rpc' = "raised" /\ rsettled' = lastError
    /\ UNCHANGED <<maxRetries, initialDelay, lastError, rcalls, rsleeps, thrown>>

RetryIdle ==
    /\ rpc = "idle"
    /\ maxRetries = DefaultMaxRetries
    /\ initialDelay = DefaultInitialDelay
    /\ attempt = 0
    /\ lastError = NoValue
    /\ rsettled = NoValue
    /\ rcalls = 0
    /\ rsleeps = <<>>
    /\ thrown = <<>>

----------------------------------------------------------------------------
(* pollWithBackoff (utils/apiClient) and pollWithYield (outsystems-api)    *)

\* JS numbers that arise from multiplying an integer by 1.5 repeatedly are
\* dyadic rationals; <<n, d>> stands for n / d, kept in lowest terms.
Num(n) == <<n, 1>>
RatLeq(a, b) == a[1] * b[2] <= b[1] * a[2]
RatEq(a, b) == a[1] * b[2] = b[1] * a[2]
\* interval * 1.5
Times15(q) == IF q[1] % 2 = 0 THEN <<3 * (q[1] \div 2), q[2]>>
                              ELSE <<3 * q[1], 2 * q[2]>>
\* Math.min(a, b)
MathMin(a, b) == IF RatLeq(a, b) THEN a ELSE b

\* interval = Math.min(interval * 1.5, maxInterval)
NextIntervalMutantUncapped(iv, cap) == Times15(iv)
NextInterval(iv, cap) == MathMin(Times15(iv), Num(cap))

PollTimeoutError(n) ==
    [cls |-> "Error", status |-> 0, id |-> 0, msg |-> "Polling timeout", attempts |-> n]
PollFailedError(result) ==
    [cls |-> "Error", status |-> 0, id |-> 0, msg |-> "Polling failed", result |-> result]

CheckFn(result) == result.body.status \in checkFn
FailFn(result) == result.body.status \in failFn

DefaultMaxAttempts == 60
DefaultInitialInterval == 2000
DefaultMaxInterval == 30000

\* `while (attempts < maxAttempts)`
PollLoopTestMutantInclusive(att, ma) == att <= ma
PollLoopTest(att, ma) == att < ma

\* The poll loop is invoked: options are destructured, interval and attempts
\* initialised, and the while test is evaluated for the first time.
PollInvoke(variant, observer, ma, ii, mi, chk, fl) ==
    /\ ppc = "idle"
    /\ pvariant' = variant
    /\ onProgress' = observer
    /\ maxAttempts' = ma
    /\ initialInterval' = ii
    /\ maxInterval' = mi
    /\ checkFn' = chk
    /\ failFn' = fl
    /\ interval' = Num(ii)
    /\ attempts' = 0
    /\ pcalls' = 0
    /\ presults' = <<>>
    /\ psleeps' = <<>>
    /\ pprogress' = <<>>
    /\ pyields' = <<>>
    /\ IF PollLoopTest(0, ma)
         THEN ppc' = "call" /\ psettled' = NoValue
         ELSE ppc' = "raised" /\ psettled' = PollTimeoutError(0)

\* `await pollFn()` : the status read is issued.
PollCall ==
    /\ ppc = "call"
    /\ ppc' = "inflight"
    /\ pcalls' = pcalls + 1
    /\ UNCHANGED <<pvariant, onProgress, maxAttempts, initialInterval, maxInterval,
                   checkFn, failFn, interval, attempts, psettled, presults,
                   psleeps, pprogress, pyields>>

\* pollWithYield: `attempts === 0 || (attempts + 1) % 5 === 0`
YieldsProgressMutantZeroBased(att) == att % 5 = 0
YieldsProgress(att) == att = 0 \/ (att + 1) % 5 = 0

\* What the loop body does with a result: "return", "throw", "yield" or "sleep".
\* The success predicate is evaluated first.
PollVerdictMutantFailFirst(result) ==
    IF FailFn(result) THEN "throw"
    ELSE IF CheckFn(result) THEN "return"
    ELSE IF pvariant = "yield" /\ YieldsProgress(attempts) THEN "yield"
    ELSE "sleep"
PollVerdict(result) ==
    IF CheckFn(result) THEN "return"
    ELSE IF FailFn(result) THEN "throw"
    ELSE IF pvariant = "yield" /\ YieldsProgress(attempts) THEN "yield"
    ELSE "sleep"

\* `onProgress(result, attempts)`
OnProgressMutantOneBased(seen, result, att) == Append(seen, <<result, att + 1>>)
OnProgress(seen, result, att) == Append(seen, <<result, att>>)

\* pollFn() settles.  A rejection propagates (the loop has no try/catch);
\* a result goes to the observer (pollWithBackoff), then to the predicates.
PollSettle(outcome) ==
    /\ ppc = "inflight"
    /\ IF IsError(outcome)
         THEN /\ ppc' = "raised"
              /\ psettled' = outcome
              /\ UNCHANGED <<presults, psleeps, pprogress, pyields>>
         ELSE /\ presults' = Append(presults, outcome)
              /\ pprogress' = IF pvariant = "backoff" /\ onProgress
                                THEN OnProgress(pprogress, outcome, attempts)
                                ELSE pprogress
              /\ LET v == PollVerdict(outcome) IN
                   /\ ppc' = CASE v = "return" -> "returned"
                               [] v = "throw"  -> "raised"
                               [] v = "yield"  -> "yield"
                               [] OTHER        -> "sleep"
                   /\ psettled' = CASE v = "return" -> outcome
                                    [] v = "throw"  -> PollFailedError(outcome)
                                    [] OTHER        -> psettled
                   /\ pyields' = IF v = "yield"
                                   THEN Append(pyields, <<attempts + 1, maxAttempts>>)
                                   ELSE pyields
                   /\ psleeps' = IF v = "sleep" THEN Append(psleeps, interval)
                                                ELSE psleeps
    /\ UNCHANGED <<pvariant, onProgress, maxAttempts, initialInterval, maxInterval,
                   checkFn, failFn, interval, attempts, pcalls>>

\* pollWithYield: the consumer asks for the next element after a progress
\* line; the generator goes on to its setTimeout(interval).
PollResumeMutantYieldInsteadOfSleep ==
    /\ ppc = "yield"
    /\ interval' = NextInterval(interval, maxInterval)
    /\ attempts' = attempts + 1
    /\ IF PollLoopTest(attempts + 1, maxAttempts)
         THEN ppc' = "call" /\ UNCHANGED psettled
         ELSE ppc' = "raised" /\ psettled' = PollTimeoutError(attempts + 1)
    /\ UNCHANGED <<pvariant, onProgress, maxAttempts, initialInterval, maxInterval,
                   checkFn, failFn, pcalls, presults, psleeps, pprogress, pyields>>
PollResume ==
    /\ ppc = "yield"
    /\ ppc' = "sleep"
    /\ psleeps' = Append(psleeps, interval)
    /\ UNCHANGED <<pvariant, onProgress, maxAttempts, initialInterval, maxInterval,
                   checkFn, failFn, interval, attempts, psettled, pcalls,
                   presults, pprogress, pyields>>

\* The sleep timer fires: the interval grows, attempts++, the while test.
PollWake ==
    /\ ppc = "sleep"
    /\ interval' = NextInterval(interval, maxInterval)
    /\ attempts' = attempts + 1
    /\ IF PollLoopTest(attempts + 1, maxAttempts)
         THEN ppc' = "call" /\ UNCHANGED psettled
         ELSE ppc' = "raised" /\ psettled' = PollTimeoutError(attempts + 1)
    /\ UNCHANGED <<pvariant, onProgress, maxAttempts, initialInterval, maxInterval,
                   checkFn, failFn, pcalls, presults, psleeps, pprogress, pyields>>

PollIdle ==
    /\ ppc = "idle"
    /\ pvariant = "backoff"
    /\ onProgress = FALSE
    /\ maxAttempts = DefaultMaxAttempts
    /\ initialInterval = DefaultInitialInterval
    /\ maxInterval = DefaultMaxInterval
    /\ checkFn = {}
    /\ failFn = {}
    /\ interval = Num(DefaultInitialInterval)
    /\ attempts = 0
    /\ psettled = NoValue
    /\ pcalls = 0
    /\ presults = <<>>
    /\ psleeps = <<>>
    /\ pprogress = <<>>
    /\ pyields = <<>>

----------------------------------------------------------------------------
(* Token cache: getValidOutSystemsToken, and getOutsystemsToken as seen by *)
(* its caller (started, then resolved with a TokenResponse or rejected).   *)

TOKEN_EXPIRY_BUFFER_SECONDS == 300
\* `expires_in || 3600`
FallbackExpiresIn == 3600
\* access_token missing from the token endpoint's response
Undefined == 0

NullToken == [token |-> Undefined, expiresAt |-> 0, null |-> TRUE]
CacheEntry(tok, expiresAt) == [token |-> tok, expiresAt |-> expiresAt, null |-> FALSE]

\* `cachedToken && cachedToken.expiresAt > nowInSeconds + BUFFER`
CacheValidMutantNoBuffer(cache, now) == ~cache.null /\ cache.expiresAt > now
CacheValid(cache, now) ==
    ~cache.null /\ cache.expiresAt > now + TOKEN_EXPIRY_BUFFER_SECONDS

\* getOutsystemsToken's return value for the token endpoint's response data:
\* { token: data.access_token, expiresIn: data.expires_in || 3600 }
TokenResponse(data) ==
    [token |-> IF data.has_token THEN data.access_token ELSE Undefined,
     expiresIn |-> IF data.has_expires /\ data.expires_in # 0
                     THEN data.expires_in ELSE FallbackExpiresIn]

NoCall == [pc |-> "idle", now |-> 0, hit |-> FALSE, started |-> 0,
           before |-> NullToken, after |-> NullToken, result |-> Undefined]
NoExchange == [state |-> "none", id |-> 0, token |-> Undefined, expiresIn |-> 0]

\* The concurrent callers of getValidOutSystemsToken.
NCallers == 2
Callers == 1..NCallers

\* Module load: `let cachedToken = null`, no call in progress.
\* getOutsystemsToken has not been called.
NoMessage == <<>>
\* The front end before any tool call or request: no runtime
\* configuration, OS_DEV_ENVID set, MCP_SERVER_SECRET unset.
NoSecret == [set |-> FALSE, value |-> ""]
NoExchangeYet ==
    [front |-> "none", method |-> "", path |-> "", header |-> <<>>, tool |-> "",
     params |-> FALSE, prompt |-> [type |-> "undefined", len |-> 0],
     status |-> 0, handler |-> "none", outcome |-> ""]
SrvIdle ==
    [runtimeConfig |-> FALSE, devEnvId |-> TRUE, secret |-> NoSecret,
     run |-> "none", last |-> NoExchangeYet]

AuthIdle ==
    [pc |-> "idle", log |-> <<>>, endpoints |-> FALSE, failedAt |-> "none",
     token |-> FALSE, msg |-> NoMessage, msgs |-> {}, n |-> 0,
     jar |-> {}, set |-> {}, reqs |-> <<>>]

TokenIdle ==
    /\ clock = 0
    /\ cachedToken = NullToken
    /\ tcall = [c \in Callers |-> NoCall]
    /\ exch = [c \in Callers |-> NoExchange]
    /\ nexch = 0
    /\ completed = {}
    /\ auth = AuthIdle
    /\ srv = SrvIdle

\* The entry written at lines 34-37: both fields from one TokenResponse.
NewEntryMutantKeepsExpiry(now, resp, cache) ==
    CacheEntry(resp.token, IF cache.null THEN now + resp.expiresIn ELSE cache.expiresAt)
NewEntryMutantClockAtResume(now, resp, cache) == CacheEntry(resp.token, clock + resp.expiresIn)
NewEntry(now, resp, cache) == CacheEntry(resp.token, now + resp.expiresIn)

\* The rejection of `await getOutsystemsToken()` leaves the function before
\* the assignment to cachedToken.
CacheAfterRejectionMutantCleared(cache) == NullToken
CacheAfterRejection(cache) == cache

\* getValidOutSystemsToken is called by c: nowInSeconds is read, the cache is
\* tested; on a hit the call returns, otherwise (worker: after the env check)
\* getOutsystemsToken is started and the call awaits it.
GvtBegin(c) ==
    /\ tcall[c].pc \in {"idle", "returned", "raised"}
    /\ LET call == [NoCall EXCEPT !.now = clock, !.before = cachedToken] IN
       IF CacheValid(cachedToken, clock)
         THEN /\ tcall' = [tcall EXCEPT ![c] =
                    [call EXCEPT !.pc = "returned", !.hit = TRUE,
                                 !.after = cachedToken,
                                 !.result = cachedToken.token]]
              /\ UNCHANGED <<exch, nexch>>
         ELSE IF tvariant = "worker" /\ ~envCreds
           THEN /\ tcall' = [tcall EXCEPT ![c] =
                      [call EXCEPT !.pc = "raised", !.after = cachedToken]]
                /\ UNCHANGED <<exch, nexch>>
           ELSE /\ tcall' = [tcall EXCEPT ![c] =
                      [call EXCEPT !.pc = "waiting", !.started = 1]]
                /\ nexch' = nexch + 1
                /\ exch' = [exch EXCEPT ![c] =
                      [NoExchange EXCEPT !.state = "running", !.id = nexch + 1]]
    /\ UNCHANGED <<tvariant, envCreds, clock, cachedToken, completed, auth, srv>>

\* c's exchange ends and the await of getOutsystemsToken resumes in c (one
\* turn of the event loop).  Some hop failed: getOutsystemsToken threw its
\* authentication error, which propagates.  Otherwise the token endpoint
\* answered with `data`: the TokenResponse is cached with
\* expiresAt = nowInSeconds + expiresIn and the cached token is returned.
\* Without credentials the exchange cannot succeed (stdio: the check before
\* the federated login).
GvtResume(c, ok, data) ==
    /\ tcall[c].pc = "waiting"
    /\ exch[c].state = "running"
    /\ ok => envCreds
    /\ IF ~ok
         THEN /\ cachedToken' = CacheAfterRejection(cachedToken)
              /\ tcall' = [tcall EXCEPT ![c] =
                    [@ EXCEPT !.pc = "raised", !.after = cachedToken']]
              /\ exch' = [exch EXCEPT ![c] = [@ EXCEPT !.state = "failed"]]
              /\ UNCHANGED completed
         ELSE LET resp == TokenResponse(data)
                  entry == NewEntry(tcall[c].now, resp, cachedToken) IN
              /\ exch' = [exch EXCEPT ![c] =
                    [@ EXCEPT !.state = "ok", !.token = resp.token,
                              !.expiresIn = resp.expiresIn]]
              /\ completed' = completed \cup
                    {[id |-> exch[c].id, token |-> resp.token,
                      expiresIn |-> resp.expiresIn, now |-> tcall[c].now]}
              /\ cachedToken' = entry
              /\ tcall' = [tcall EXCEPT ![c] =
                    [@ EXCEPT !.pc = "returned", !.after = entry,
                              !.result = entry.token]]
    /\ UNCHANGED <<tvariant, envCreds, clock, nexch, auth, srv>>

\* Time passes.
Tick(d) ==
    /\ clock' = clock + d
    /\ UNCHANGED <<tvariant, envCreds, cachedToken, tcall, exch, nexch, completed, auth, srv>>

----------------------------------------------------------------------------
(* getOutsystemsToken: the authentication exchange                         *)

HopOrder ==
    << "DiscoverOIDC", "GeneratePKCE", "InitiateAuthorization", "FetchIdPConfig",
       "FederatedLogin", "ExchangeForAuthCode", "ExchangeCodeViaRedirect",
       "ExchangeForAccessToken" >>
HopIndex(hop) == CHOOSE i \in 1..Len(HopOrder) : HopOrder[i] = hop
\* Every hop but GeneratePKCE awaits a remote answer.
NetworkHops == {HopOrder[i] : i \in 1..Len(HopOrder)} \ {"GeneratePKCE"}

\* What the remote side answers to a hop: the expected response ("ok"), a
\* success status whose body or headers lack what the hop reads
\* ("incomplete"), an error status with a JSON body ("status_json") or with
\* a body that is not JSON ("status_text"), or no response ("neterr").
\* No hop has a deadline, so there is no timeout answer.
HopAnswers == {"ok", "incomplete", "status_json", "status_text", "neterr"}

\* stdio: axios rejects on a transport failure and on every status outside
\* 2xx (hop 7: outside 200..399); the Cognito library rejects on any failure.
\* The name of what is thrown while the answer is handled, "none" if the
\* code goes on.
StdioThrows(hop, r) ==
    CASE r = "neterr" -> "network"
      [] r \in {"status_json", "status_text"} ->
           IF hop = "FederatedLogin" THEN "cognito" ELSE "http_status"
      [] r = "incomplete" /\ hop = "InitiateAuthorization" -> "missing_params"
      [] r = "incomplete" /\ hop = "FetchIdPConfig" -> "type_error"
      [] r = "incomplete" /\ hop = "FederatedLogin" -> "cognito"
      [] r = "incomplete" /\ hop = "ExchangeCodeViaRedirect" -> "missing_code"
      [] OTHER -> "none"

\* worker: fetch rejects on a transport failure only; response.ok is tested
\* for the Cognito call alone; response.json() rejects on a body that is not
\* JSON; the redirect hops read the Location header.
WorkerThrows(hop, r) ==
    CASE r = "neterr" -> "network"
      [] hop = "InitiateAuthorization" /\ r # "ok" -> "missing_params"
      [] hop = "FederatedLogin" /\ r \in {"status_json", "status_text"} -> "cognito_status"
      [] hop = "FederatedLogin" /\ r = "incomplete" -> "cognito_no_result"
      [] hop = "ExchangeCodeViaRedirect" /\ r \in {"status_json", "status_text"} -> "no_location"
      [] hop = "ExchangeCodeViaRedirect" /\ r = "incomplete" -> "missing_code"
      [] hop = "FetchIdPConfig" /\ r \in {"status_json", "incomplete"} -> "type_error"
      [] r = "status_text" -> "json_syntax"
      [] OTHER -> "none"

HopThrows(variant, hop, r) ==
    IF variant = "stdio" THEN StdioThrows(hop, r) ELSE WorkerThrows(hop, r)

\* The error getOutsystemsToken throws from its catch block, as the parts of
\* its message: stdio a literal, worker a literal followed by error.message.
AuthFailedStdio == "OutSystems authentication failed."
AuthFailedWorker == "OutSystems authentication failed: "
AuthError(variant, cause) ==
    IF variant = "stdio" THEN <<AuthFailedStdio>> ELSE <<AuthFailedWorker, cause>>

\* A hop has failed when the network gave no response or an error status,
\* and, for the two redirect hops, when the value they extract is missing.
HopFailed(hop, r) ==
    \/ r \in {"neterr", "status_json", "status_text"}
    \/ r = "incomplete" /\ hop \in {"InitiateAuthorization", "ExchangeCodeViaRedirect"}

MaxAuthAttempts == 2

\* Cookies.  What the Set-Cookie header of a response holds: nothing, a
\* cookie name=value, or a cookie whose value itself contains '='.
CookieOffers == {"none", "plain", "padded"}
\* The cookie set by the answer to `hop` of the n-th exchange.
Cookie(n, hop, offer) == <<n, hop, offer>>
\* The hops made through the session that holds the cookies (stdio: the
\* axios instance with the jar; worker: fetchWithCookies).  cognitoLogin
\* uses the global axios and the Cognito library (stdio), plain fetch
\* (worker).
UsesJar(hop) == hop \notin {"FetchIdPConfig", "FederatedLogin"}
\* stdio: the jar keeps what the response sets.  worker: the first
\* name=value pair is kept `if (cookieParts.length === 2)`, cookieParts
\* being that pair split at every '='.
Stores(variant, offer) == variant = "stdio" \/ offer = "plain"
\* The response to `hop` has arrived with `offer` in its Set-Cookie header.
Received(a, hop, offer) ==
    IF offer = "none" THEN a
    ELSE [a EXCEPT !.set = @ \cup {Cookie(a.n, hop, offer)},
                   !.jar = IF UsesJar(hop) /\ Stores(tvariant, offer)
                           THEN @ \cup {Cookie(a.n, hop, offer)} ELSE @]
\* The request of the hop that `a` has come to await goes out, with the
\* cookies of the jar if the hop is made through the session.
Requested(a) ==
    IF a.pc \in NetworkHops
    THEN [a EXCEPT !.reqs = Append(@, [hop |-> a.pc,
                                        sent |-> IF UsesJar(a.pc) THEN a.jar ELSE {},
                                        owed |-> a.set])]
    ELSE a

\* getOutsystemsToken is called (the worker's caller has checked the
\* credentials): hop 1 is issued.
AuthBegin ==
    /\ auth.pc \in {"idle", "returned", "raised"}
    /\ auth.n < MaxAuthAttempts
    /\ tvariant = "worker" => envCreds
    /\ auth' = Requested([AuthIdle EXCEPT !.pc = "DiscoverOIDC", !.log = <<"DiscoverOIDC">>,
                                          !.msgs = auth.msgs, !.n = auth.n + 1])
    /\ UNCHANGED <<tvariant, envCreds, clock, cachedToken, tcall, exch, nexch, completed, srv>>
    /\ UNCHANGED <<retryVars, pollVars, runVars>>

\* The catch block.
AuthRaise(a, cause) ==
    LET m == AuthError(tvariant, cause) IN
    [a EXCEPT !.pc = "raised", !.msg = m, !.msgs = a.msgs \cup {m}]

\* The code that runs from the answer of `hop` to the next await.
AuthAfter(a, hop, r) ==
    CASE hop = "DiscoverOIDC" ->
           \* endpoints destructured, PKCE generated, the authorization
           \* request built from authorization_endpoint
           LET b == [a EXCEPT !.endpoints = (r = "ok"),
                              !.log = a.log \o <<"GeneratePKCE", "InitiateAuthorization">>] IN
           IF r = "ok" THEN [b EXCEPT !.pc = "InitiateAuthorization"]
           ELSE AuthRaise(b, "invalid_url")
      [] hop = "InitiateAuthorization" ->
           IF tvariant = "stdio" /\ ~envCreds THEN AuthRaise(a, "missing_env")
           ELSE [a EXCEPT !.pc = "FetchIdPConfig", !.log = Append(a.log, "FetchIdPConfig")]
      [] hop = "ExchangeForAccessToken" ->
           [a EXCEPT !.pc = "returned", !.token = (r = "ok")]
      [] OTHER ->
           LET next == HopOrder[HopIndex(hop) + 1] IN
           [a EXCEPT !.pc = next, !.log = Append(a.log, next)]

\* The awaited hop settles with answer r, whose response (if there is one)
\* holds `offer` in its Set-Cookie header.
AuthAnswer(r, offer) ==
    /\ auth.pc \in NetworkHops
    /\ r = "neterr" => offer = "none"
    /\ LET hop == auth.pc
           a == Received([auth EXCEPT !.failedAt =
                             IF auth.failedAt = "none" /\ HopFailed(hop, r) THEN hop
                             ELSE auth.failedAt], hop, offer)
           cause == HopThrows(tvariant, hop, r) IN
       auth' = IF cause # "none" THEN AuthRaise(a, cause)
               ELSE Requested(AuthAfter(a, hop, r))
    /\ UNCHANGED <<tvariant, envCreds, clock, cachedToken, tcall, exch, nexch, completed, srv>>
    /\ UNCHANGED <<retryVars, pollVars, runVars>>

----------------------------------------------------------------------------
(* OutSystemsApiClient.request and the remote API                          *)

SyntaxError(id) == [cls |-> "SyntaxError", status |-> 0, id |-> id]
PlainError(id)  == [cls |-> "Error", status |-> 0, id |-> id]

\* A parsed JSON body: the fields the orchestrator reads.
Body(st, key, appKey, urlPath) ==
    [status |-> st, key |-> key, appKey |-> appKey, urlPath |-> urlPath]
\* A field the body does not have.
Missing == ""
NoBody == Body("", Missing, Missing, Missing)

\* What the network does with one fetch: the deadline fires first (abort),
\* the transport fails, or a response arrives (with a JSON body or none).
TimedOut == [net |-> "timeout", status |-> 0, json |-> FALSE, body |-> NoBody]
Unreachable == [net |-> "error", status |-> 0, json |-> FALSE, body |-> NoBody]
Response(status, json, body) ==
    [net |-> "response", status |-> status, json |-> json, body |-> body]

\* request(): TimeoutError on abort, the transport error unchanged, ApiError
\* on !response.ok, otherwise `await response.json()`.
RequestOutcome(resp, id) ==
    CASE resp.net = "timeout" -> TimeoutError(id)
      [] resp.net = "error" -> NetworkError(id)
      [] resp.status < 200 \/ resp.status > 299 -> ApiError(resp.status, id)
      [] ~resp.json -> SyntaxError(id)
      [] OTHER -> Result(id, resp.body)

\* Failures the remote side and the network produce for any endpoint.
RunErrorStatuses == {401, 404, 429, 503}
Failures == {TimedOut, Unreachable} \cup
            {Response(st, TRUE, NoBody) : st \in RunErrorStatuses}

\* The statuses a job / a publication may show at the next read.
JobNext(st) ==
    CASE st = "Pending" -> {"Pending", "ReadyToGenerate", "Failed"}
      [] st = "Generating" -> {"Generating", "Done", "Failed"}
      [] OTHER -> {st}
PubNext(st) ==
    CASE st = "Running" -> {"Running", "Finished", "Failed"}
      [] OTHER -> {st}
\* `Archived` stands for a status outside the known enumerations.  The
\* remote may show it from the first read of a polling loop on, and then
\* keeps showing it (JobNext and PubNext leave it unchanged).
UnknownStatus == "Archived"
Shown(next) == IF pcalls = 1 THEN next \cup {UnknownStatus} ELSE next

\* Keys and paths the remote hands out.  The
\* second publication key has characters outside [a-f0-9-].
JobKeys == {"job-1"}
AppKeys == {"a1b2", "c3d4"}
PubKeys == {"9f8e", "PUB1"}
UrlPaths == {"my-app"}

\* The responses the remote can give to a call of each kind.
Responses(kind) ==
    Failures \cup
    CASE kind = "createJob" ->
           {Response(201, TRUE, Body("", k, Missing, Missing)) : k \in {Missing} \cup JobKeys}
      [] kind = "trigger" ->
           {Response(202, j, NoBody) : j \in BOOLEAN}
      [] kind = "publish" ->
           {Response(201, TRUE, Body("", k, Missing, Missing)) : k \in {Missing} \cup PubKeys}
      [] kind = "jobStatus" ->
           {Response(200, TRUE, Body(st, Missing, IF st = "Done" THEN k ELSE Missing, Missing)) :
               st \in Shown(JobNext(remoteJob)), k \in {Missing} \cup AppKeys}
      [] kind = "pubStatus" ->
           {Response(200, TRUE, Body(st, Missing, Missing, Missing)) : st \in Shown(PubNext(remotePub))}
      [] OTHER ->
           {Response(200, TRUE, Body("", Missing, Missing, u)) : u \in {Missing} \cup UrlPaths}

\* A fetch that ends in a response has reached the remote side.  One that
\* the deadline aborts (controller.abort() after `timeout` ms) may have been
\* processed by then, its response lost; a transport failure has not.
Reached(kind, resp) ==
    CASE resp.net = "response" -> {TRUE}
      [] resp.net = "timeout" /\ kind \in {"createJob", "trigger", "publish"} -> BOOLEAN
      [] OTHER -> {FALSE}

\* The remote side processes a request it accepts: a 2xx answer, or the
\* answer the client no longer waits for.
Processed(resp, reached) ==
    reached /\ (resp.net = "response" => resp.status <= 299)

\* The remote side after answering `resp` to a call of `kind`.
RemoteEffect(kind, resp, reached) ==
    /\ remoteJob' =
         IF ~Processed(resp, reached) THEN remoteJob
         ELSE CASE kind = "createJob" -> "Pending"
                [] kind = "trigger" /\ remoteJob = "ReadyToGenerate" -> "Generating"
                [] kind = "jobStatus" -> resp.body.status
                [] OTHER -> remoteJob
    /\ remotePub' =
         IF ~Processed(resp, reached) THEN remotePub
         ELSE CASE kind = "publish" -> "Running"
                [] kind = "pubStatus" -> resp.body.status
                [] OTHER -> remotePub
    /\ remoteDone' =
         IF Processed(resp, reached) /\ kind \in {"createJob", "trigger", "publish"}
           THEN remoteDone + 1
           ELSE remoteDone

\* How an outcome is entered in the call log.
OutClass(kind, outcome) ==
    IF IsError(outcome) THEN "error"
    ELSE CASE kind \in {"jobStatus", "pubStatus"} -> outcome.body.status
           [] kind \in {"createJob", "publish"} ->
                IF outcome.body.key # Missing THEN "ok" ELSE "nokey"
           [] kind = "appDetails" -> IF outcome.body.urlPath # Missing THEN "ok" ELSE "nourl"
           [] OTHER -> "ok"

\* The call log keeps one entry per run of consecutive calls of a kind: the
\* kind and the outcome of the latest of them ("inflight" until it settles).
LogIssue(kind) ==
    LET n == Len(netlog) IN
    IF n >= 1 /\ netlog[n].kind = kind
      THEN [netlog EXCEPT ![n].out = "inflight"]
      ELSE Append(netlog, [kind |-> kind, out |-> "inflight"])
LogSettle(out) == [netlog EXCEPT ![Len(netlog)].out = out]

\* The hops of the authentication exchange are made without a deadline.
NoDeadline == 0
MutatingTimeout == 30000
ReadTimeout == 15000

\* What a call carries besides the token: the body of the publication POST,
\* the application key in the path of the details GET.
NoArg == <<>>
Null == "null"
RequestArgMutantPublicationKey(kind) ==
    CASE kind = "publish" ->
           [applicationKey |-> publicationKey, applicationRevision |-> 1, downloadUrl |-> Null]
      [] kind = "appDetails" -> [applicationKey |-> applicationKey]
      [] OTHER -> NoArg
RequestArg(kind) ==
    CASE kind = "publish" ->
           [applicationKey |-> applicationKey, applicationRevision |-> 1, downloadUrl |-> Null]
      [] kind = "appDetails" -> [applicationKey |-> applicationKey]
      [] OTHER -> NoArg

NoRequest ==
    [kind |-> "none", arg |-> NoArg, resp |-> TimedOut, outcome |-> NoValue, failed |-> 0]

\* request() is called: the deadline timer is armed (setTimeout) and fetch
\* puts the call in flight.
Issue(kind, timeout) ==
    /\ inflight' = Append(inflight, <<kind, timeout, RequestArg(kind)>>)
    /\ timers' = Append(timers, <<kind, timeout, RequestArg(kind)>>)
    /\ netlog' = LogIssue(kind)
    /\ UNCHANGED lastReq

\* `finally { clearTimeout(timeoutId) }`
ClearTimeoutMutantOnSuccess(tm, outcome) == IF IsError(outcome) THEN tm ELSE Tail(tm)
ClearTimeout(tm, outcome) == Tail(tm)

\* The call settles with what the network did; request() settles with
\* `outcome`.  lastReq.failed counts the calls of this kind that have failed
\* in a row up to this one.
Settle(kind, resp, outcome) ==
    /\ inflight # <<>>
    /\ inflight' = Tail(inflight)
    /\ timers' = ClearTimeout(timers, outcome)
    /\ netlog' = LogSettle(OutClass(kind, outcome))
    /\ lastReq' = [kind |-> kind, arg |-> inflight[1][3], resp |-> resp, outcome |-> outcome,
                   failed |-> IF ~IsError(outcome) THEN 0
                              ELSE IF lastReq.kind = kind THEN lastReq.failed + 1
                              ELSE 1]
    /\ \E reached \in Reached(kind, resp) : RemoteEffect(kind, resp, reached)

----------------------------------------------------------------------------
(* sanitizeErrorMessage and createAndDeployApp                             *)

MsgTimeout == "The request timed out. Please try again."
MsgAuth == "Authentication failed. Please check your credentials."
MsgRateLimit == "Rate limit exceeded. Please try again in a few moments."
MsgUnavailable == "The service is temporarily unavailable. Please try again later."
MsgRequest == "An error occurred while processing your request. Please try again."
MsgUnexpected == "An unexpected error occurred. Please try again."
MsgNoHost == "Missing required environment variable: OS_HOSTNAME"

sanitizeErrorMessageMutantNoRateLimit(error) ==
    CASE error.cls = "TimeoutError" -> MsgTimeout
      [] error.cls = "ApiError" /\ error.status \in {401, 403} -> MsgAuth
      [] error.cls = "ApiError" /\ error.status >= 500 -> MsgUnavailable
      [] error.cls = "ApiError" -> MsgRequest
      [] OTHER -> MsgUnexpected
sanitizeErrorMessage(error) ==
    CASE error.cls = "TimeoutError" -> MsgTimeout
      [] error.cls = "ApiError" /\ error.status \in {401, 403} -> MsgAuth
      [] error.cls = "ApiError" /\ error.status = 429 -> MsgRateLimit
      [] error.cls = "ApiError" /\ error.status >= 500 -> MsgUnavailable
      [] error.cls = "ApiError" -> MsgRequest
      [] OTHER -> MsgUnexpected

Msg(tag, text) == [tag |-> tag, text |-> text]
Yield(tag) == yields' = Append(yields, Msg(tag, ""))
YieldText(tag, text) == yields' = Append(yields, Msg(tag, text))

\* The run is the token cache's caller 1.
RunCaller == 1

\* The catch block: yield the sanitized message; the throw follows when the
\* consumer asks for the next element.
CatchMutantSilent(error) ==
    /\ pc' = "y_error"
    /\ yields' = yields
    /\ rraised' = sanitizeErrorMessage(error)
    /\ caught' = error
Catch(error) ==
    /\ pc' = "y_error"
    /\ yields' = Append(yields, Msg("error", sanitizeErrorMessage(error)))
    /\ rraised' = sanitizeErrorMessage(error)
    /\ caught' = error

RetryReset ==
    /\ rpc' = "idle"
    /\ maxRetries' = DefaultMaxRetries
    /\ initialDelay' = DefaultInitialDelay
    /\ attempt' = 0
    /\ lastError' = NoValue
    /\ rsettled' = NoValue
    /\ rcalls' = 0
    /\ rsleeps' = <<>>
    /\ thrown' = <<>>

PollReset ==
    /\ ppc' = "idle"
    /\ pvariant' = "backoff"
    /\ onProgress' = FALSE
    /\ maxAttempts' = DefaultMaxAttempts
    /\ initialInterval' = DefaultInitialInterval
    /\ maxInterval' = DefaultMaxInterval
    /\ checkFn' = {}
    /\ failFn' = {}
    /\ interval' = Num(DefaultInitialInterval)
    /\ attempts' = 0
    /\ psettled' = NoValue
    /\ pcalls' = 0
    /\ presults' = <<>>
    /\ psleeps' = <<>>
    /\ pprogress' = <<>>
    /\ pyields' = <<>>

\* A hostname is a sequence of pieces; DevSuffix is the piece the code looks
\* for.  A run reads the content of OS_HOSTNAME only when it builds the
\* final URL, which is where the model draws it.
DevSuffix == ".outsystems.dev"
AppSuffix == "-dev.outsystems.app"
HostPieces == {"acme", DevSuffix, ".example.com"}
MaxHostPieces == 2
Hostnames == UNION {[1..n -> HostPieces] : n \in 1..MaxHostPieces}

\* String.prototype.replace with a string pattern: the first occurrence.
RECURSIVE ReplaceFirst(_, _, _)
ReplaceFirstMutantAll(h, pat, by) ==
    [i \in 1..Len(h) |-> IF h[i] = pat THEN by ELSE h[i]]
ReplaceFirst(h, pat, by) ==
    IF h = <<>> THEN <<>>
    ELSE IF Head(h) = pat THEN <<by>> \o Tail(h)
    ELSE <<Head(h)>> \o ReplaceFirst(Tail(h), pat, by)

\* `https://${appHostname}/${appDetails.urlPath}`
FinalUrl(h, urlPath) ==
    <<"https://">> \o ReplaceFirst(h, DevSuffix, AppSuffix) \o <<"/", urlPath>>

\* First next(): the hostname check, then the first yield.
RunStartMutantNoHostCheck ==
    /\ pc = "start"
    /\ pc' = "y_auth"
    /\ Yield("auth")
    /\ UNCHANGED <<rraised, caught>>
    /\ UNCHANGED <<hostSet, rout, token, hasJobId, applicationKey, publicationKey,
                   inflight, timers, lastReq, netlog, remoteJob, remotePub, remoteDone>>
    /\ UNCHANGED <<retryVars, pollVars, tokenVars>>
RunStart ==
    /\ pc = "start"
    /\ IF ~hostSet
         THEN /\ pc' = "y_nohost"
              /\ yields' = Append(yields, Msg("sanitized", sanitizeErrorMessage(PlainError(0))))
              /\ rraised' = MsgNoHost
              /\ caught' = PlainError(0)
         ELSE /\ pc' = "y_auth"
              /\ Yield("auth")
              /\ UNCHANGED <<rraised, caught>>
    /\ UNCHANGED <<hostSet, rout, token, hasJobId, applicationKey, publicationKey,
                   inflight, timers, lastReq, netlog, remoteJob, remotePub, remoteDone>>
    /\ UNCHANGED <<retryVars, pollVars, tokenVars>>

\* `throw new Error(error)` after the missing-hostname message, and
\* `throw new Error(sanitizedMessage)` after the catch block's message.
RunThrow ==
    /\ pc \in {"y_nohost", "y_error"}
    /\ pc' = "end"
    /\ rout' = "raised"
    /\ UNCHANGED <<hostSet, yields, rraised, caught, token, hasJobId, applicationKey,
                   publicationKey, inflight, timers, lastReq, netlog, remoteJob, remotePub, remoteDone>>
    /\ UNCHANGED <<retryVars, pollVars, tokenVars>>

\* `const token = await getValidOutSystemsToken()`
RunAuth ==
    /\ pc = "y_auth"
    /\ GvtBegin(RunCaller)
    /\ LET call == tcall'[RunCaller] IN
       CASE call.pc = "returned" ->
              /\ token' = call.result
              /\ pc' = "y_step1"
              /\ Yield("step1")
              /\ UNCHANGED <<rraised, caught, inflight, timers, lastReq, netlog>>
         [] call.pc = "raised" ->
              /\ Catch(PlainError(0))
              /\ UNCHANGED <<token, inflight, timers, lastReq, netlog>>
         [] OTHER ->
              /\ pc' = "await_token"
              /\ inflight' = Append(inflight, <<"auth", NoDeadline>>)
              /\ netlog' = LogIssue("auth")
              /\ UNCHANGED <<timers, lastReq>>
              /\ UNCHANGED <<token, yields, rraised, caught>>
    /\ UNCHANGED <<hostSet, rout, hasJobId, applicationKey, publicationKey,
                   remoteJob, remotePub, remoteDone>>
    /\ UNCHANGED <<retryVars, pollVars>>

RunAuthResume(ok, data) ==
    /\ pc = "await_token"
    /\ GvtResume(RunCaller, ok, data)
    /\ inflight' = Tail(inflight)
    /\ netlog' = LogSettle(IF ok THEN "ok" ELSE "error")
    /\ UNCHANGED <<timers, lastReq>>
    /\ IF ok
         THEN /\ token' = tcall'[RunCaller].result
              /\ pc' = "y_step1"
              /\ Yield("step1")
              /\ UNCHANGED <<rraised, caught>>
         ELSE /\ Catch(PlainError(0))
              /\ UNCHANGED token
    /\ UNCHANGED <<hostSet, rout, hasJobId, applicationKey, publicationKey,
                   remoteJob, remotePub, remoteDone>>
    /\ UNCHANGED <<retryVars, pollVars>>

\* The calls made under withRetry and the calls made by the poll loops.
AwaitMutating == {"await_create", "await_trigger", "await_publish"}
AwaitPoll == {"poll_ready", "poll_done", "poll_pub"}
KindOf(at) ==
    CASE at = "await_create" -> "createJob"
      [] at = "await_trigger" -> "trigger"
      [] at = "await_publish" -> "publish"
      [] at = "poll_pub" -> "pubStatus"
      [] OTHER -> "jobStatus"

RunFrame == UNCHANGED <<hostSet, rout, token, remoteJob, remotePub, remoteDone>>

\* startGenerationJob / triggerGeneration / startPublication enter withRetry
\* with its default arguments.
RunMutate ==
    /\ pc \in {"y_step1", "y_step3", "y_step5"}
    /\ RetryInvoke(DefaultMaxRetries, DefaultInitialDelay)
    /\ pc' = CASE pc = "y_step1" -> "await_create"
               [] pc = "y_step3" -> "await_trigger"
               [] OTHER -> "await_publish"
    /\ RunFrame
    /\ UNCHANGED <<yields, rraised, caught, hasJobId, applicationKey, publicationKey,
                   inflight, timers, lastReq, netlog>>
    /\ UNCHANGED <<pollVars, tokenVars>>

\* withRetry calls fn(): client.request issues the POST.
RunRetryCall ==
    /\ pc \in AwaitMutating
    /\ RetryCall
    /\ Issue(KindOf(pc), MutatingTimeout)
    /\ RunFrame
    /\ UNCHANGED <<pc, yields, rraised, caught, hasJobId, applicationKey, publicationKey>>
    /\ UNCHANGED <<pollVars, tokenVars>>

\* The POST settles inside withRetry.
RunRetrySettle(resp) ==
    /\ pc \in AwaitMutating
    /\ LET outcome == RequestOutcome(resp, rcalls) IN
         /\ RetrySettle(outcome)
         /\ Settle(KindOf(pc), resp, outcome)
    /\ UNCHANGED <<hostSet, rout, token, pc, yields, rraised, caught, hasJobId,
                   applicationKey, publicationKey>>
    /\ UNCHANGED <<pollVars, tokenVars>>

RunRetryWake ==
    /\ pc \in AwaitMutating
    /\ RetryWake
    /\ RunFrame
    /\ UNCHANGED <<pc, yields, rraised, caught, hasJobId, applicationKey, publicationKey,
                   inflight, timers, lastReq, netlog>>
    /\ UNCHANGED <<pollVars, tokenVars>>

\* withRetry has settled: the key checks of startGenerationJob and
\* startPublication, then the orchestrator's next yield (or its catch block).
RunMutated ==
    /\ pc \in AwaitMutating
    /\ rpc \in {"returned", "raised"}
    /\ RetryReset
    /\ IF rpc = "raised" THEN
            /\ Catch(rsettled)
            /\ UNCHANGED <<hasJobId, publicationKey>>
       ELSE IF pc # "await_trigger" /\ rsettled.body.key = Missing THEN
            /\ Catch(PlainError(0))
            /\ UNCHANGED <<hasJobId, publicationKey>>
       ELSE /\ pc' = CASE pc = "await_create" -> "y_created"
                       [] pc = "await_trigger" -> "y_triggered"
                       [] OTHER -> "y_published"
            /\ CASE pc = "await_create" -> Yield("jobCreated")
                 [] pc = "await_trigger" -> Yield("triggered")
                 [] OTHER -> YieldText("deployStarted", rsettled.body.key)
            /\ hasJobId' = (hasJobId \/ pc = "await_create")
            /\ publicationKey' = IF pc = "await_publish" THEN rsettled.body.key
                                  ELSE publicationKey
            /\ UNCHANGED <<rraised, caught>>
    /\ remoteDone' = 0
    /\ UNCHANGED <<hostSet, rout, token, remoteJob, remotePub>>
    /\ UNCHANGED <<applicationKey, inflight, timers, lastReq, netlog>>
    /\ UNCHANGED <<pollVars, tokenVars>>

\* The second of two consecutive yields (result line, then next step's line).
RunNextStep ==
    /\ pc \in {"y_created", "y_ready", "y_triggered", "y_generated",
               "y_published", "y_deployed"}
    /\ pc' = CASE pc = "y_created" -> "y_step2"
               [] pc = "y_ready" -> "y_step3"
               [] pc = "y_triggered" -> "y_step4"
               [] pc = "y_generated" -> "y_step5"
               [] pc = "y_published" -> "y_step6"
               [] OTHER -> "y_step7"
    /\ Yield(CASE pc = "y_created" -> "step2"
               [] pc = "y_ready" -> "step3"
               [] pc = "y_triggered" -> "step4"
               [] pc = "y_generated" -> "step5"
               [] pc = "y_published" -> "step6"
               [] OTHER -> "step7")
    /\ RunFrame
    /\ UNCHANGED <<rraised, caught, hasJobId, applicationKey, publicationKey, inflight, timers, lastReq, netlog>>
    /\ UNCHANGED <<retryVars, pollVars, tokenVars>>

\* The success and failure predicates of the three polling stages.
ReadyCheckMutantPending == {"ReadyToGenerate", "Pending"}
ReadyCheck == {"ReadyToGenerate"}
DoneCheck == {"Done"}
FinishedCheck == {"Finished"}
FailedCheckMutantNone == {}
FailedCheck == {"Failed"}

ReadyMaxAttempts == 60
ReadyInitialInterval == 2000
ReadyMaxInterval == 10000
LongMaxAttempts == 120
LongInitialInterval == 3000
LongMaxInterval == 30000

\* stdio polls with pollWithYield, the worker with pollWithBackoff and a
\* logging onProgress.
RunPollVariant == IF tvariant = "stdio" THEN "yield" ELSE "backoff"

\* The polling loops of steps 2, 4 and 6 are entered.
RunPoll ==
    /\ pc \in {"y_step2", "y_step4", "y_step6"}
    /\ CASE pc = "y_step2" ->
              /\ PollInvoke(RunPollVariant, tvariant = "worker", ReadyMaxAttempts,
                            ReadyInitialInterval, ReadyMaxInterval, ReadyCheck, FailedCheck)
              /\ pc' = "poll_ready"
         [] pc = "y_step4" ->
              /\ PollInvoke(RunPollVariant, tvariant = "worker", LongMaxAttempts,
                            LongInitialInterval, LongMaxInterval, DoneCheck, FailedCheck)
              /\ pc' = "poll_done"
         [] OTHER ->
              /\ PollInvoke(RunPollVariant, tvariant = "worker", LongMaxAttempts,
                            LongInitialInterval, LongMaxInterval, FinishedCheck, FailedCheck)
              /\ pc' = "poll_pub"
    /\ RunFrame
    /\ UNCHANGED <<yields, rraised, caught, hasJobId, applicationKey, publicationKey,
                   inflight, timers, lastReq, netlog>>
    /\ UNCHANGED <<retryVars, tokenVars>>

\* getJobStatus / getPublicationStatus is called by the loop.
RunPollCall ==
    /\ pc \in AwaitPoll
    /\ PollCall
    /\ Issue(KindOf(pc), ReadTimeout)
    /\ RunFrame
    /\ UNCHANGED <<pc, yields, rraised, caught, hasJobId, applicationKey, publicationKey>>
    /\ UNCHANGED <<retryVars, tokenVars>>

RunPollSettle(resp) ==
    /\ pc \in AwaitPoll
    /\ LET outcome == RequestOutcome(resp, pcalls) IN
         /\ PollSettle(outcome)
         /\ Settle(KindOf(pc), resp, outcome)
    /\ UNCHANGED <<hostSet, rout, token, pc, yields, rraised, caught, hasJobId,
                   applicationKey, publicationKey>>
    /\ UNCHANGED <<retryVars, tokenVars>>

\* `yield* pollWithYield(...)`: the progress line passes through to the
\* consumer, whose next pull resumes the loop.
RunPollResume ==
    /\ pc \in AwaitPoll
    /\ PollResume
    /\ RunFrame
    /\ UNCHANGED <<pc, yields, rraised, caught, hasJobId, applicationKey, publicationKey,
                   inflight, timers, lastReq, netlog>>
    /\ UNCHANGED <<retryVars, tokenVars>>

RunPollWake ==
    /\ pc \in AwaitPoll
    /\ PollWake
    /\ RunFrame
    /\ UNCHANGED <<pc, yields, rraised, caught, hasJobId, applicationKey, publicationKey,
                   inflight, timers, lastReq, netlog>>
    /\ UNCHANGED <<retryVars, tokenVars>>

\* The loop has settled: step 4 checks appSpec.appKey; then the next yield.
RunPolled ==
    /\ pc \in AwaitPoll
    /\ ppc \in {"returned", "raised"}
    /\ PollReset
    /\ IF ppc = "raised" THEN
            /\ Catch(psettled)
            /\ UNCHANGED applicationKey
       ELSE IF pc = "poll_done" /\ psettled.body.appKey = Missing THEN
            /\ Catch(PlainError(0))
            /\ UNCHANGED applicationKey
       ELSE /\ pc' = CASE pc = "poll_ready" -> "y_ready"
                       [] pc = "poll_done" -> "y_generated"
                       [] OTHER -> "y_deployed"
            /\ CASE pc = "poll_ready" -> Yield("jobReady")
                 [] pc = "poll_done" -> YieldText("generated", psettled.body.appKey)
                 [] OTHER -> Yield("deployed")
            /\ applicationKey' = IF pc = "poll_done" THEN psettled.body.appKey
                                  ELSE applicationKey
            /\ UNCHANGED <<rraised, caught>>
    /\ RunFrame
    /\ UNCHANGED <<hasJobId, publicationKey, inflight, timers, lastReq, netlog>>
    /\ UNCHANGED <<retryVars, tokenVars>>

\* Step 7: getApplicationDetails, one request without retry.
RunDetails ==
    /\ pc = "y_step7"
    /\ pc' = "await_details"
    /\ Issue("appDetails", ReadTimeout)
    /\ RunFrame
    /\ UNCHANGED <<yields, rraised, caught, hasJobId, applicationKey, publicationKey>>
    /\ UNCHANGED <<retryVars, pollVars, tokenVars>>

RunDetailsSettle(resp) ==
    /\ pc = "await_details"
    /\ LET outcome == RequestOutcome(resp, 1) IN
         /\ Settle("appDetails", resp, outcome)
         /\ IF IsError(outcome) THEN Catch(outcome)
            ELSE IF outcome.body.urlPath = Missing THEN Catch(PlainError(0))
            ELSE /\ pc' = "y_url"
                 /\ \E h \in Hostnames : YieldText("url", FinalUrl(h, outcome.body.urlPath))
                 /\ UNCHANGED <<rraised, caught>>
    /\ UNCHANGED <<hostSet, rout, token, hasJobId, applicationKey, publicationKey>>
    /\ UNCHANGED <<retryVars, pollVars, tokenVars>>

\* The consumer pulls after the final URL: the generator returns.
RunReturn ==
    /\ pc = "y_url"
    /\ pc' = "end"
    /\ rout' = "done"
    /\ UNCHANGED <<hostSet, yields, rraised, caught, token, hasJobId, applicationKey,
                   publicationKey, inflight, timers, lastReq, netlog, remoteJob, remotePub, remoteDone>>
    /\ UNCHANGED <<retryVars, pollVars, tokenVars>>

RunIdle ==
    /\ pc = "start"
    /\ yields = <<>>
    /\ rout = "running"
    /\ rraised = ""
    /\ caught = NoValue
    /\ token = Undefined
    /\ hasJobId = FALSE
    /\ applicationKey = Missing
    /\ publicationKey = Missing
    /\ inflight = <<>>
    /\ timers = <<>>
    /\ lastReq = NoRequest
    /\ netlog = <<>>
    /\ remoteJob = "none"
    /\ remotePub = "none"
    /\ remoteDone = 0

----------------------------------------------------------------------------
(* The front ends: the MCP tools (stdio) and the HTTP router (worker)      *)

\* A `prompt` argument as the front end receives it: a string of `len`
\* characters, the number `len`, a boolean (len 1 for true), null, or
\* nothing at all.
PromptTypes == {"string", "number", "boolean", "null", "undefined"}
PromptLengths == {0, 1, 9, 10, 11, 250, 499, 500, 501, 502}
Prompts ==
    {[type |-> "string", len |-> n] : n \in PromptLengths} \cup
    {[type |-> "number", len |-> n] : n \in {0, 12345}} \cup
    {[type |-> "boolean", len |-> n] : n \in {0, 1}} \cup
    {[type |-> t, len |-> 0] : t \in {"null", "undefined"}}
NoPrompt == [type |-> "undefined", len |-> 0]

\* inputSchemaShape: z.string().min(10).max(500)
ZodAcceptsMutantExclusiveMax(p) == p.type = "string" /\ p.len >= 10 /\ p.len < 500
ZodAccepts(p) == p.type = "string" /\ p.len >= 10 /\ p.len <= 500

\* `!prompt`
Falsy(p) ==
    \/ p.type \in {"null", "undefined"}
    \/ p.type \in {"string", "number", "boolean"} /\ p.len = 0
\* handleMcpInvoke: the two tests that answer 400 for a prompt
WorkerAccepts(p) ==
    /\ ~(Falsy(p) \/ p.type # "string")
    /\ ~(p.len < 10 \/ p.len > 500)

\* runtime-config: hasConfig() is getConfig() !== null, getConfig() being
\* the runtime configuration if one is stored, else the environment if
\* OS_HOSTNAME, OS_USERNAME, OS_PASSWORD and OS_DEV_ENVID are all set.
hasConfig == srv.runtimeConfig \/ (hostSet /\ envCreds /\ srv.devEnvId)

\* What the front end recorded of a tool call.
ToolCall(tool, p, handler, outcome) ==
    [NoExchangeYet EXCEPT !.front = "stdio", !.tool = tool, !.params = TRUE,
                          !.prompt = p, !.handler = handler, !.outcome = outcome]

\* Tool configureOutSystemsEnvironment: setRuntimeConfig(...)
ConfigureOutSystemsEnvironment ==
    /\ tvariant = "stdio"
    /\ srv.run = "none"
    /\ srv' = [srv EXCEPT !.runtimeConfig = TRUE,
                          !.last = ToolCall("configureOutSystemsEnvironment", NoPrompt,
                                            "configureOutSystemsEnvironment", "configured")]
    /\ UNCHANGED <<tvariant, envCreds, clock, cachedToken, tcall, exch, nexch, completed, auth>>
    /\ UNCHANGED <<retryVars, pollVars, runVars>>

\* Tool clearOutSystemsConfiguration: clearRuntimeConfig()
ClearOutSystemsConfiguration ==
    /\ tvariant = "stdio"
    /\ srv.run = "none"
    /\ srv' = [srv EXCEPT !.runtimeConfig = FALSE,
                          !.last = ToolCall("clearOutSystemsConfiguration", NoPrompt,
                                            "clearOutSystemsConfiguration", "cleared")]
    /\ UNCHANGED <<tvariant, envCreds, clock, cachedToken, tcall, exch, nexch, completed, auth>>
    /\ UNCHANGED <<retryVars, pollVars, runVars>>

\* Tool createOutSystemsApp called with `prompt` = p: the arguments are
\* parsed with the schema before the handler; the handler returns the
\* not-configured text unless hasConfig(), else it iterates
\* createAndDeployApp(prompt).
CreateOutSystemsApp(p) ==
    /\ tvariant = "stdio"
    /\ srv.run = "none"
    /\ srv' =
         IF ~ZodAccepts(p)
         THEN [srv EXCEPT !.last = ToolCall("createOutSystemsApp", p, "none", "invalid_params")]
         ELSE IF ~hasConfig
         THEN [srv EXCEPT !.last = ToolCall("createOutSystemsApp", p, "createOutSystemsApp",
                                            "not_configured")]
         ELSE [srv EXCEPT !.run = "started",
                          !.last = ToolCall("createOutSystemsApp", p, "createOutSystemsApp",
                                            "run")]
    /\ UNCHANGED <<tvariant, envCreds, clock, cachedToken, tcall, exch, nexch, completed, auth>>
    /\ UNCHANGED <<retryVars, pollVars, runVars>>

\* An Authorization header as `authHeader.split(' ')` sees it: the pieces
\* between single spaces; <<>> is a request without the header.
HeaderPieces == {"Bearer", "Basic", "s3cret", ""}
MaxHeaderPieces == 3
Headers == UNION {[1..n -> HeaderPieces] : n \in 0..MaxHeaderPieces}
Secrets == {NoSecret, [set |-> TRUE, value |-> ""], [set |-> TRUE, value |-> "s3cret"]}

\* validateAuth(request, env)
validateAuth(header, secret) ==
    IF header = <<>> \/ header = <<"">> THEN FALSE
    ELSE LET scheme == header[1] IN
         IF scheme # "Bearer" \/ Len(header) < 2 THEN FALSE
         ELSE IF header[2] = "" THEN FALSE
         ELSE secret.set /\ header[2] = secret.value

\* The bodies of a POST to /mcp/invoke: not JSON, or JSON with or without
\* `tool`, `params` and `params.prompt`.
Tools == {"createOutSystemsApp", "healthCheck", "deleteApp"}
Bodies ==
    {[json |-> FALSE, tool |-> "", params |-> FALSE, prompt |-> NoPrompt]} \cup
    {[json |-> TRUE, tool |-> t, params |-> FALSE, prompt |-> NoPrompt] : t \in {""} \cup Tools} \cup
    {[json |-> TRUE, tool |-> "createOutSystemsApp", params |-> TRUE, prompt |-> q] : q \in Prompts}
NoHttpBody == [json |-> FALSE, tool |-> "", params |-> FALSE, prompt |-> NoPrompt]

\* handleMcpInvoke(request, env): the status answered and the tool handler
\* entered.  Destructuring `body.params` when it is absent throws, which
\* the catch answers with 400.
handleMcpInvoke(body) ==
    IF ~body.json THEN [status |-> 400, handler |-> "none"]
    ELSE IF body.tool = "" THEN [status |-> 400, handler |-> "none"]
    ELSE IF body.tool = "createOutSystemsApp" THEN
         IF ~body.params THEN [status |-> 400, handler |-> "none"]
         ELSE IF ~WorkerAccepts(body.prompt) THEN [status |-> 400, handler |-> "none"]
         ELSE [status |-> 200, handler |-> "createOutSystemsApp"]
    ELSE IF body.tool = "healthCheck" THEN [status |-> 200, handler |-> "healthCheck"]
    ELSE [status |-> 400, handler |-> "none"]

\* handleRequest(request, env)
handleRequest(method, path, header, body) ==
    IF method = "OPTIONS" THEN [status |-> 204, handler |-> "none"]
    ELSE IF path = "/health" /\ method = "GET" THEN [status |-> 200, handler |-> "none"]
    ELSE IF path = "/metrics" /\ method = "GET" THEN [status |-> 200, handler |-> "none"]
    ELSE IF path = "/mcp/invoke" /\ method = "POST" THEN
         IF ~validateAuth(header, srv.secret) THEN [status |-> 401, handler |-> "none"]
         ELSE handleMcpInvoke(body)
    ELSE [status |-> 404, handler |-> "none"]

Methods == {"GET", "POST", "OPTIONS"}
Paths == {"/health", "/metrics", "/mcp/invoke", "/other"}

\* The worker answers a request; createOutSystemsAppStream starts the run.
\* The router keeps nothing from one request to the next that its answer
\* depends on, so a behaviour has one request.
\* A request carries a body only as a POST to /mcp/invoke.
HandleRequest ==
    /\ tvariant = "worker"
    /\ srv.run = "none"
    /\ srv.last = NoExchangeYet
    /\ \E method \in Methods, path \in Paths, header \in Headers :
       \E body \in IF method = "POST" /\ path = "/mcp/invoke" THEN Bodies ELSE {NoHttpBody} :
          LET answer == handleRequest(method, path, header, body) IN
          srv' = [srv EXCEPT
                    !.run = IF answer.handler = "createOutSystemsApp" THEN "started" ELSE @,
                    !.last = [front |-> "worker", method |-> method, path |-> path,
                              header |-> header, tool |-> body.tool, params |-> body.params,
                              prompt |-> body.prompt, status |-> answer.status,
                              handler |-> answer.handler,
                              outcome |-> IF answer.handler = "createOutSystemsApp"
                                          THEN "run" ELSE ""]]
    /\ UNCHANGED <<tvariant, envCreds, clock, cachedToken, tcall, exch, nexch, completed, auth>>
    /\ UNCHANGED <<retryVars, pollVars, runVars>>

\* The run a tool call or request has started takes its first steps.
StartedRunStart == srv.run = "started" /\ RunStart
StartedRunThrow == srv.run = "started" /\ RunThrow

----------------------------------------------------------------------------
(* Harnesses                                                               *)

TokenQuiet == TokenIdle /\ tvariant = "stdio" /\ envCreds = TRUE
RunQuiet == RunIdle /\ hostSet = TRUE

\* Harness: one invocation of withRetry with parameters from bounded sets and
\* an operation that may settle any way on each call.
RetryHarnessInvoke ==
    /\ \E mr \in 1..MaxRetriesBound, d \in InitialDelays : RetryInvoke(mr, d)
    /\ UNCHANGED <<pollVars, tokenVars, runVars>>

RetryHarnessSettle ==
    /\ \E o \in FnOutcomes(rcalls) : RetrySettle(o)
    /\ UNCHANGED <<pollVars, tokenVars, runVars>>

NextRetry ==
    \/ RetryHarnessInvoke
    \/ RetryCall /\ UNCHANGED <<pollVars, tokenVars, runVars>>
    \/ RetryHarnessSettle
    \/ RetryWake /\ UNCHANGED <<pollVars, tokenVars, runVars>>

InitRetry == RetryIdle /\ PollIdle /\ TokenQuiet /\ RunQuiet
SpecRetry == InitRetry /\ [][NextRetry]_vars

\* Harness for the poll loop: options from bounded sets, predicates that may
\* overlap, and a poll function that resolves with any status or rejects.
MaxAttemptsBound == 5
InitialIntervals == {1000, 2000, 3000}
MaxIntervals == {2000, 10000}
PollStatuses == {"Pending", "ReadyToGenerate", "Failed"}
PredicatePairs ==
    { <<{"ReadyToGenerate"}, {"Failed"}>>,
      <<{"ReadyToGenerate", "Failed"}, {"Failed"}>> }
PollVariants == { <<"backoff", TRUE>>, <<"backoff", FALSE>>, <<"yield", FALSE>> }

PollOutcomes(id) ==
    {Result(id, [status |-> st]) : st \in PollStatuses} \cup {TimeoutError(id)}

PollHarnessInvoke ==
    \E v \in PollVariants, ma \in 0..MaxAttemptsBound, ii \in InitialIntervals,
       mi \in MaxIntervals, pr \in PredicatePairs :
        /\ PollInvoke(v[1], v[2], ma, ii, mi, pr[1], pr[2])
        /\ UNCHANGED <<retryVars, tokenVars, runVars>>

PollHarnessSettle ==
    /\ \E o \in PollOutcomes(pcalls) : PollSettle(o)
    /\ UNCHANGED <<retryVars, tokenVars, runVars>>

NextPoll ==
    \/ PollHarnessInvoke
    \/ PollCall /\ UNCHANGED <<retryVars, tokenVars, runVars>>
    \/ PollHarnessSettle
    \/ PollResume /\ UNCHANGED <<retryVars, tokenVars, runVars>>
    \/ PollWake /\ UNCHANGED <<retryVars, tokenVars, runVars>>

InitPoll == RetryIdle /\ PollIdle /\ TokenQuiet /\ RunQuiet
SpecPoll == InitPoll /\ [][NextPoll]_vars

\* Harness for the token cache: callers (orchestration runs, health checks)
\* call getValidOutSystemsToken concurrently while time passes.
MaxExchanges == 2
MaxTicks == 2
\* The clock advances by one expiry buffer at a time.
TickSeconds == TOKEN_EXPIRY_BUFFER_SECONDS
ExpiresInValues == {0, 900}
TokenData(id) ==
    {[has_token |-> TRUE, access_token |-> id, has_expires |-> TRUE, expires_in |-> x]
        : x \in ExpiresInValues}
    \cup {[has_token |-> TRUE, access_token |-> id, has_expires |-> FALSE, expires_in |-> 0],
          [has_token |-> FALSE, access_token |-> id, has_expires |-> TRUE, expires_in |-> 900]}

TokenInit ==
    /\ TokenIdle
    /\ tvariant \in {"stdio", "worker"}
    /\ envCreds \in BOOLEAN

\* Callers are interchangeable: caller c + 1 makes its first call only after
\* caller c has made its first.
TokenHarnessBegin ==
    /\ \E c \in Callers :
         /\ CacheValid(cachedToken, clock) \/ nexch < MaxExchanges
         /\ c > 1 => tcall[c - 1].pc # "idle"
         /\ GvtBegin(c)
    /\ UNCHANGED <<retryVars, pollVars, runVars>>

TokenHarnessResume ==
    /\ \E c \in Callers :
         \/ \E data \in TokenData(exch[c].id) : GvtResume(c, TRUE, data)
         \/ GvtResume(c, FALSE, <<>>)
    /\ UNCHANGED <<retryVars, pollVars, runVars>>

TokenHarnessTick ==
    /\ clock < MaxTicks * TickSeconds
    /\ Tick(TickSeconds)
    /\ UNCHANGED <<retryVars, pollVars, runVars>>

NextToken ==
    \/ TokenHarnessBegin
    \/ TokenHarnessResume
    \/ TokenHarnessTick

InitToken == RetryIdle /\ PollIdle /\ TokenInit /\ RunQuiet
SpecToken == InitToken /\ [][NextToken]_vars

\* Up to MaxAuthAttempts exchanges, one after the other, in either
\* deployment, with or without credentials.
NextAuth ==
    \/ AuthBegin
    \/ \E r \in HopAnswers, offer \in CookieOffers : AuthAnswer(r, offer)

InitAuth ==
    /\ RetryIdle /\ PollIdle /\ TokenIdle /\ RunQuiet
    /\ tvariant \in {"stdio", "worker"}
    /\ envCreds \in BOOLEAN
SpecAuth == InitAuth /\ [][NextAuth]_vars

\* The front end of either deployment with any environment: tool calls or
\* requests until one starts a run, then that run up to its first message.
NextServer ==
    \/ ConfigureOutSystemsEnvironment
    \/ ClearOutSystemsConfiguration
    \/ \E p \in Prompts : CreateOutSystemsApp(p)
    \/ HandleRequest
    \/ StartedRunStart
    \/ StartedRunThrow
InitServer ==
    /\ RetryIdle /\ PollIdle /\ RunIdle
    /\ hostSet \in BOOLEAN
    /\ tvariant \in {"stdio", "worker"}
    /\ envCreds \in BOOLEAN
    /\ clock = 0
    /\ cachedToken = NullToken
    /\ tcall = [c \in Callers |-> NoCall]
    /\ exch = [c \in Callers |-> NoExchange]
    /\ nexch = 0
    /\ completed = {}
    /\ auth = AuthIdle
    /\ \E d \in BOOLEAN, sec \in Secrets :
          srv = [SrvIdle EXCEPT !.devEnvId = d, !.secret = sec]
SpecServer == InitServer /\ [][NextServer]_vars

\* One run of createAndDeployApp in either deployment, with or without its
\* environment, starting on a cold cache or on a cache filled by an earlier
\* run (still fresh, or inside the expiry buffer).
WarmExpiresIn == FallbackExpiresIn
WarmClocks == {0, WarmExpiresIn - TOKEN_EXPIRY_BUFFER_SECONDS}
\* The earlier run's token differs from any token this run obtains.
WarmToken == MaxExchanges + 1
Init ==
    /\ RetryIdle
    /\ PollIdle
    /\ RunIdle
    /\ hostSet \in BOOLEAN
    /\ tvariant \in {"stdio", "worker"}
    /\ envCreds \in BOOLEAN
    /\ tcall = [c \in Callers |-> NoCall]
    /\ exch = [c \in Callers |-> NoExchange]
    /\ nexch = 0
    /\ auth = AuthIdle
    /\ srv = SrvIdle
    /\ \/ /\ cachedToken = NullToken
          /\ completed = {}
          /\ clock = 0
       \/ /\ envCreds
          /\ cachedToken = CacheEntry(WarmToken, WarmExpiresIn)
          /\ completed = {[id |-> 0, token |-> WarmToken,
                           expiresIn |-> WarmExpiresIn, now |-> 0]}
          /\ clock \in WarmClocks

Next ==
    \/ RunStart
    \/ RunThrow
    \/ RunAuth
    \/ \E data \in TokenData(exch[RunCaller].id) : RunAuthResume(TRUE, data)
    \/ RunAuthResume(FALSE, <<>>)
    \/ RunMutate
    \/ RunRetryCall
    \/ \E resp \in Responses(KindOf(pc)) : RunRetrySettle(resp)
    \/ RunRetryWake
    \/ RunMutated
    \/ RunNextStep
    \/ RunPoll
    \/ RunPollCall
    \/ \E resp \in Responses(KindOf(pc)) : RunPollSettle(resp)
    \/ RunPollResume
    \/ RunPollWake
    \/ RunPolled
    \/ RunDetails
    \/ \E resp \in Responses("appDetails") : RunDetailsSettle(resp)
    \/ RunReturn

Spec == Init /\ [][Next]_vars

\* The steps that take place whenever they can: the consumer's `for await`
\* pulls the next message, setTimeout timers fire, and a call made through
\* request() settles, at the latest when its deadline aborts it.  The
\* authentication exchange has no deadline, so nothing makes `await
\* getValidOutSystemsToken()` resume.
RunProgress ==
    \/ RunStart
    \/ RunThrow
    \/ RunAuth
    \/ RunMutate
    \/ RunRetryCall
    \/ \E resp \in Responses(KindOf(pc)) : RunRetrySettle(resp)
    \/ RunRetryWake
    \/ RunMutated
    \/ RunNextStep
    \/ RunPoll
    \/ RunPollCall
    \/ \E resp \in Responses(KindOf(pc)) : RunPollSettle(resp)
    \/ RunPollResume
    \/ RunPollWake
    \/ RunPolled
    \/ RunDetails
    \/ \E resp \in Responses("appDetails") : RunDetailsSettle(resp)
    \/ RunReturn
SpecLive == Init /\ [][Next]_vars /\ WF_vars(RunProgress)

\* The places where the generator is suspended at a yield, the consumer
\* holding the message.
YieldPoints ==
    {"y_nohost", "y_auth", "y_step1", "y_created", "y_step2", "y_ready",
     "y_step3", "y_triggered", "y_step4", "y_generated", "y_step5",
     "y_published", "y_step6", "y_deployed", "y_step7", "y_url", "y_error"}
AtYield == pc \in YieldPoints \/ (pc \in AwaitPoll /\ ppc = "yield")

\* The consumer stops iterating: next() is never called again, so the
\* generator (and a poller it holds) stays suspended where it yielded.
RunCancel ==
    /\ AtYield
    /\ pc' = "abandoned"
    /\ UNCHANGED <<hostSet, yields, rout, rraised, caught, token, hasJobId,
                   applicationKey, publicationKey, inflight, timers, lastReq,
                   netlog, remoteJob, remotePub, remoteDone>>
    /\ UNCHANGED <<retryVars, pollVars, tokenVars>>

NextCancel == Next \/ RunCancel

\* A run whose consumer may stop iterating at any message.
SpecCancel == Init /\ [][NextCancel]_vars

----------------------------------------------------------------------------
(* Claims about withRetry (checked under SpecRetry)                        *)

Retryable(e) == IsError(e) /\ ~NonRetryable(e)
AllRetryable(errs) == \A i \in 1..Len(errs) : Retryable(errs[i])

\* C1: when the first failure of the operation is an ApiError with status in
\* 400..499 other than 429, withRetry has called the operation exactly once,
\* has slept zero times and has raised that very error, whatever maxRetries.
C1_NonRetryableOneAttempt ==
    (Len(thrown) >= 1 /\ thrown[1].cls = "ApiError"
        /\ thrown[1].status \in 400..499 /\ thrown[1].status # 429)
    => /\ rpc = "raised"
       /\ rcalls = 1
       /\ rsleeps = <<>>
       /\ rsettled = thrown[1]

C1_Witness ==
    /\ rpc = "raised"
    /\ maxRetries = MaxRetriesBound
    /\ thrown = <<ApiError(404, 1)>>

\* C2: when every attempt fails with a retryable error, withRetry raises only
\* after exactly maxRetries calls; the sleeps are initialDelay, then doubling
\* (initialDelay * 2^k before retry k), one fewer than the calls, none after
\* the last attempt; and at no time are there more calls than maxRetries.
C2_RetryableExhausts ==
    /\ rcalls <= maxRetries
    /\ \A k \in 1..Len(rsleeps) :
          /\ k = 1 => rsleeps[k] = initialDelay
          /\ k > 1 => rsleeps[k] = 2 * rsleeps[k - 1] /\ rsleeps[k] >= rsleeps[k - 1]
    /\ (rpc = "raised" /\ AllRetryable(thrown))
         => /\ rcalls = maxRetries
            /\ Len(thrown) = maxRetries
            /\ Len(rsleeps) = maxRetries - 1

C2_Witness ==
    /\ rpc = "raised"
    /\ maxRetries = MaxRetriesBound
    /\ initialDelay = DefaultInitialDelay
    /\ AllRetryable(thrown)
    /\ Len(rsleeps) = MaxRetriesBound - 1

\* C3: k retryable failures (k < maxRetries) never make withRetry raise, and
\* when attempt k+1 succeeds withRetry returns that attempt's result after
\* exactly k+1 calls and k sleeps; 503, 503, success with maxRetries = 3 and
\* initialDelay = 1000 returns after the sleeps 1000 and 2000.
C3_SuccessAfterRetries ==
    /\ (AllRetryable(thrown) /\ Len(thrown) < maxRetries) => rpc # "raised"
    /\ rpc = "returned"
         => /\ AllRetryable(thrown)
            /\ rcalls = Len(thrown) + 1
            /\ rsettled = Value(rcalls)
            /\ Len(rsleeps) = Len(thrown)
    /\ (rpc = "returned" /\ maxRetries = 3 /\ initialDelay = 1000
          /\ thrown = <<ApiError(503, 1), ApiError(503, 2)>>)
         => rsleeps = <<1000, 2000>>

C3_Witness ==
    /\ rpc = "returned"
    /\ maxRetries = 3
    /\ initialDelay = 1000
    /\ thrown = <<ApiError(503, 1), ApiError(503, 2)>>
    /\ rsettled = Value(3)

\* C4: whenever withRetry raises, what it raises is the error object thrown
\* by the last attempt of the operation: same identity, same class.
C4_RaisesLastError ==
    rpc = "raised"
    => /\ Len(thrown) = rcalls
       /\ rcalls >= 1
       /\ rsettled = thrown[Len(thrown)]

C4_Witness ==
    /\ rpc = "raised"
    /\ Len(thrown) >= 2
    /\ thrown[1] # thrown[Len(thrown)]
    /\ thrown[1].cls # thrown[Len(thrown)].cls

----------------------------------------------------------------------------
(* Claims about the poll loop (checked under SpecPoll)                     *)

Terminal(r) == r.body.status \in checkFn \cup failFn

\* C5: the success predicate is evaluated before the failure predicate: a
\* poll result that satisfies both predicates ends the loop by being
\* returned, and the loop does not raise on it (both loop variants).
C5_SuccessBeforeFailure ==
    \A i \in 1..Len(presults) :
        (presults[i].body.status \in checkFn /\ presults[i].body.status \in failFn)
        => /\ i = Len(presults)
           /\ ppc = "returned"
           /\ psettled = presults[i]

C5_Witness ==
    /\ pvariant = "yield"
    /\ ppc = "returned"
    /\ Len(presults) >= 2
    /\ psettled.body.status \in failFn

\* C6: the poll function is never called more than maxAttempts times; when
\* none of the results satisfied either predicate (and no poll rejected) the
\* loop ends by raising the poll-timeout error naming maxAttempts attempts,
\* after exactly maxAttempts calls; a returned result satisfies checkFn.
C6_BoundedPolling ==
    /\ pcalls <= maxAttempts
    /\ (ppc = "raised" /\ psettled.cls = "Error" /\ psettled.msg = "Polling timeout")
         => /\ psettled.attempts = maxAttempts
            /\ pcalls = maxAttempts
    /\ (ppc \in {"returned", "raised"} /\ Len(presults) = pcalls
          /\ \A i \in 1..Len(presults) : ~Terminal(presults[i]))
         => psettled = PollTimeoutError(maxAttempts)
    /\ ppc = "returned" => psettled.body.status \in checkFn

C6_Witness ==
    /\ ppc = "raised"
    /\ psettled = PollTimeoutError(MaxAttemptsBound)
    /\ pcalls = MaxAttemptsBound
    /\ pvariant = "backoff"

\* initial * 1.5^k as a dyadic rational.
Grown(initial, k) == <<initial * Pow(3, k), Pow(2, k)>>

\* C7 as stated: for every initialInterval and maxInterval the sleep after
\* the k-th non-terminal poll (k = 0, 1, ...) lasts
\* min(initialInterval * 1.5^k, maxInterval), so no sleep exceeds maxInterval.
C7_Original_SleepIsCappedGrowth ==
    \A k \in 1..Len(psleeps) :
        /\ RatEq(psleeps[k], MathMin(Grown(initialInterval, k - 1), Num(maxInterval)))
        /\ RatLeq(psleeps[k], Num(maxInterval))

\* C7 as amended: when initialInterval <= maxInterval the sleep after the k-th
\* non-terminal poll lasts min(initialInterval * 1.5^k, maxInterval) and no
\* sleep exceeds maxInterval; when initialInterval > maxInterval the first
\* sleep lasts initialInterval (the cap is applied on growth only) and every
\* later sleep lasts maxInterval.
C7_SleepIsCappedGrowth ==
    \A k \in 1..Len(psleeps) :
        IF initialInterval <= maxInterval
          THEN /\ RatEq(psleeps[k],
                        MathMin(Grown(initialInterval, k - 1), Num(maxInterval)))
               /\ RatLeq(psleeps[k], Num(maxInterval))
          ELSE psleeps[k] = IF k = 1 THEN Num(initialInterval) ELSE Num(maxInterval)

C7_Witness ==
    /\ initialInterval = 1000
    /\ maxInterval = 10000
    /\ Len(psleeps) = MaxAttemptsBound
    /\ psleeps[4] = <<3375, 1>>
    /\ psleeps[5] = <<10125, 2>>

----------------------------------------------------------------------------
(* Claims about the token cache (checked under SpecToken)                  *)

\* The claim's hit condition for a call: an entry existed when the call was
\* made and now + 300 < expiresAt.
FreshAtCall(call) ==
    ~call.before.null /\ call.now + 300 < call.before.expiresAt

C9_CacheHoldsOneExchange ==
    /\ \A c, d \in Callers :
          (c # d /\ tcall[c].pc = "waiting" /\ tcall[d].pc = "waiting")
          => /\ exch[c].state = "running" /\ exch[d].state = "running"
             /\ exch[c].id # exch[d].id
    /\ \/ cachedToken.null
       \/ \E e \in completed :
             /\ cachedToken.token = e.token
             /\ cachedToken.expiresAt = e.now + e.expiresIn
    /\ \A c \in Callers :
          tcall[c].pc = "returned"
          => \E e \in completed : tcall[c].result = e.token

C9_Witness ==
    /\ tcall[1].pc = "returned" /\ tcall[2].pc = "returned"
    /\ tcall[1].before.null /\ tcall[2].before.null
    /\ tcall[1].started = 1 /\ tcall[2].started = 1
    /\ tcall[1].now # tcall[2].now
    /\ tcall[1].after # tcall[2].after
    /\ cachedToken = tcall[1].after
    /\ cachedToken.expiresAt < tcall[2].after.expiresAt

----------------------------------------------------------------------------
(* Claims about createAndDeployApp (checked under Spec)                    *)

\* The stages' calls in order, and the outcome that is each stage's success.
StageOrder ==
    << [kind |-> "auth", out |-> "ok"],
       [kind |-> "createJob", out |-> "ok"],
       [kind |-> "jobStatus", out |-> "ReadyToGenerate"],
       [kind |-> "trigger", out |-> "ok"],
       [kind |-> "jobStatus", out |-> "Done"],
       [kind |-> "publish", out |-> "ok"],
       [kind |-> "pubStatus", out |-> "Finished"],
       [kind |-> "appDetails", out |-> "ok"] >>

\* C10: within one run the remote calls are issued in the order token,
\* create job, job status, trigger generation, job status, start
\* publication, publication status, application details (the token call is
\* absent when the cache answers); a stage's first call is issued only
\* after the previous stage's latest call ended with that stage's success
\* outcome (key returned, ReadyToGenerate, accepted, Done, key returned,
\* Finished), the first API call only after the token was returned; and at
\* most one call of the run is in flight at any time.
C10_StagesInOrder ==
    LET skip == IF netlog # <<>> /\ netlog[1].kind = "auth" THEN 0 ELSE 1 IN
    /\ Len(netlog) + skip <= Len(StageOrder)
    /\ \A i \in 1..Len(netlog) : netlog[i].kind = StageOrder[i + skip].kind
    /\ \A i \in 1..(Len(netlog) - 1) : netlog[i].out = StageOrder[i + skip].out
    /\ (\E i \in 1..Len(netlog) : netlog[i].kind # "auth")
          => tcall[RunCaller].pc = "returned" /\ token = tcall[RunCaller].result
    /\ (skip = 1 /\ netlog # <<>>) => tcall[RunCaller].hit
    /\ Len(inflight) <= 1
    /\ (Len(inflight) = 1) <=>
          (netlog # <<>> /\ netlog[Len(netlog)].out = "inflight")

\* A run that went through all eight stages, token exchange included, and
\* returned after its fifteen messages.
C10_Witness ==
    /\ rout = "done"
    /\ Len(netlog) = Len(StageOrder)
    /\ netlog[Len(netlog)] = StageOrder[Len(StageOrder)]
    /\ Len(yields) = 15

\* The messages of `yields` that carry `tag`.
Tagged(tag) == {i \in 1..Len(yields) : yields[i].tag = tag}

\* The run has entered its catch block (a stage after the hostname check
\* failed) and has yielded or is past the yield of the error message.
Failed == hostSet /\ (pc = "y_error" \/ rout = "raised")

\* C11: when a stage after the hostname check fails, the sequence of yielded
\* messages holds exactly one error message, as its last element, and no
\* final-URL message; no call is in flight and from then on none is issued
\* (the call log and the yielded sequence stay as they are); and the run
\* ends by raising, never by completing normally.
C11_FailureExit ==
    /\ [](Failed =>
            /\ Tagged("error") = {Len(yields)}
            /\ Tagged("url") = {}
            /\ inflight = <<>>
            /\ rout # "done"
            /\ pc = "end" => rout = "raised")
    /\ [][Failed => /\ netlog' = netlog
                    /\ inflight' = inflight
                    /\ yields' = yields
                    /\ pc' = "end" /\ rout' = "raised"]_vars

\* The first job poll returned Failed and the run has raised.
C11_Witness ==
    /\ Failed /\ rout = "raised"
    /\ netlog = << StageOrder[1], StageOrder[2],
                   [kind |-> "jobStatus", out |-> "Failed"] >>
    /\ Len(yields) = 5

\* The fixed messages, by the claim's rule: error class, then status.
FixedMessage(cls, status) ==
    IF cls = "TimeoutError" THEN MsgTimeout
    ELSE IF cls # "ApiError" THEN MsgUnexpected
    ELSE IF status = 401 \/ status = 403 THEN MsgAuth
    ELSE IF status = 429 THEN MsgRateLimit
    ELSE IF status >= 500 THEN MsgUnavailable
    ELSE MsgRequest

SeenTerminal(kind, terminal) ==
    \E i \in 1..Len(netlog) : netlog[i].kind = kind /\ netlog[i].out \in terminal

\* This step issues a call of `kind`.
Issues(kind) ==
    /\ Len(inflight') = Len(inflight) + 1
    /\ inflight'[Len(inflight')][1] = kind

\* C13: once a job status read has returned Done or Failed, no step issues
\* another job status read; once a publication status read has returned
\* Finished or Failed, no step issues another publication status read.
C13_TerminalNotPolledAgain ==
    [][ /\ Issues("jobStatus") => ~SeenTerminal("jobStatus", {"Done", "Failed"})
        /\ Issues("pubStatus") => ~SeenTerminal("pubStatus", {"Finished", "Failed"})
      ]_vars

\* Both entities were read in a terminal state and the run went on to its end.
C13_Witness ==
    /\ SeenTerminal("jobStatus", {"Done"})
    /\ SeenTerminal("pubStatus", {"Finished"})
    /\ lastReq.kind = "appDetails"
    /\ pc = "end"

\* C16: when the consumer has stopped iterating after a yielded message, no
\* call of the run is in flight, no deadline timer and no sleep timer (of
\* withRetry or of a poll loop) is pending, no authentication exchange of
\* the run is running, and no later step issues a call or arms a timer.
C16_CancelLeavesNothingPending ==
    /\ [](pc = "abandoned" =>
            /\ inflight = <<>>
            /\ timers = <<>>
            /\ rpc \notin {"inflight", "sleep"}
            /\ ppc \notin {"inflight", "sleep"}
            /\ exch[RunCaller].state # "running")
    /\ [][pc = "abandoned" =>
            /\ inflight' = inflight /\ timers' = timers /\ netlog' = netlog
            /\ rpc' = rpc /\ ppc' = ppc /\ exch' = exch]_vars

\* The consumer stopped at a progress line in the middle of polling, after
\* at least five status reads.
C16_Witness ==
    /\ pc = "abandoned"
    /\ ppc = "yield"
    /\ pcalls >= 5
    /\ lastReq.kind = "jobStatus"

Is2xx(resp) == resp.net = "response" /\ resp.status \in 200..299
LastLogged == netlog[Len(netlog)]

\* C17: a trigger call answered with a 2xx status settles as a success,
\* whether or not the response carries a body, and the trigger POST is not
\* issued again after that answer.
C17_TriggerSucceedsOnAny2xx ==
    (lastReq.kind = "trigger" /\ Is2xx(lastReq.resp)) =>
        /\ ~IsError(lastReq.outcome)
        /\ LastLogged.kind = "trigger" => LastLogged.out # "inflight"

\* C18: every settled call of request() has ended in exactly one of: the
\* parsed body of a 2xx response, an ApiError carrying the response's
\* status, a TimeoutError when the deadline expired, or the transport error
\* unchanged; and the deadline timer of a settled call is cleared.
C18_RequestOutcomes ==
    lastReq.kind # "none" =>
        /\ \/ /\ Is2xx(lastReq.resp)
              /\ lastReq.outcome.cls = "Value"
              /\ lastReq.outcome.body = lastReq.resp.body
           \/ /\ lastReq.resp.net = "response" /\ ~Is2xx(lastReq.resp)
              /\ lastReq.outcome.cls = "ApiError"
              /\ lastReq.outcome.status = lastReq.resp.status
           \/ /\ lastReq.resp.net = "timeout"
              /\ lastReq.outcome.cls = "TimeoutError"
           \/ /\ lastReq.resp.net = "error"
              /\ lastReq.outcome.cls = "TypeError"
        /\ Len(timers) = Len(inflight)

\* The parts of C18 that do not depend on the body of a 2xx response.
C18_TimerAndTimeoutParts ==
    lastReq.kind # "none" =>
        /\ Len(timers) = Len(inflight)
        /\ lastReq.resp.net = "timeout" <=> lastReq.outcome.cls = "TimeoutError"
        /\ lastReq.outcome.cls = "ApiError" =>
              lastReq.outcome.status = lastReq.resp.status

MutatingKinds == {"createJob", "trigger", "publish"}
ReadKinds == {"jobStatus", "pubStatus", "appDetails"}
FailedOnCall == Failed /\ lastReq.kind # "none" /\ IsError(lastReq.outcome)

\* C19 as stated: when the run has failed on a remote call of any kind whose
\* error is retryable, that call has been issued up to the retry bound.
C19_Original_EveryCallRetried ==
    (FailedOnCall /\ Retryable(lastReq.outcome)) =>
        lastReq.failed = DefaultMaxRetries

\* C19: when the run has failed on a mutating call whose error is
\* retryable, the call has been issued up to the retry bound, and a client
\* error ended it at the attempt that produced it; when the run has failed
\* on a status read or on the details fetch, that call was issued once,
\* whatever the error.
C19_OnlyMutatingCallsRetried ==
    FailedOnCall =>
        /\ caught = lastReq.outcome
        /\ lastReq.kind \in MutatingKinds =>
              /\ Retryable(lastReq.outcome) => lastReq.failed = DefaultMaxRetries
              /\ lastReq.failed <= DefaultMaxRetries
              /\ lastReq.failed = caught.id
        /\ lastReq.kind \in ReadKinds => lastReq.failed = 1

\* The run failed on the publish POST after three timeouts.
C19_Witness ==
    /\ FailedOnCall
    /\ rout = "raised"
    /\ lastReq.kind = "publish"
    /\ lastReq.outcome.cls = "TimeoutError"
    /\ lastReq.failed = DefaultMaxRetries

----------------------------------------------------------------------------
(* Claims about the authentication exchange (checked under SpecAuth)       *)

IsPrefix(p, q) == Len(p) <= Len(q) /\ \A i \in 1..Len(p) : p[i] = q[i]
\* C14: the hops executed by an exchange are an initial segment of the
\* eight hops in their order, each executed once, every exchange starting
\* at DiscoverOIDC; and once a hop has failed (no response, an error status,
\* or a missing state, kcUri, client id or final code) the exchange has been
\* aborted with that hop as the last one executed.
C14_HopsInOrderFailureAborts ==
    /\ IsPrefix(auth.log, HopOrder)
    /\ auth.pc # "idle" => auth.log # <<>>
    /\ auth.pc \in NetworkHops => auth.log[Len(auth.log)] = auth.pc
    /\ auth.failedAt # "none" =>
          /\ auth.pc = "raised"
          /\ auth.log[Len(auth.log)] = auth.failedAt

\* The same statement for the stdio deployment alone.
C14_StdioHopsInOrderFailureAborts ==
    tvariant = "stdio" => C14_HopsInOrderFailureAborts

\* C15: all the authentication errors raised to the caller carry one and
\* the same message, whichever hop failed and whatever the cause.
C15_AuthFailureIsGeneric == Cardinality(auth.msgs) <= 1

\* The same statement for the stdio deployment alone.
C15_StdioAuthFailureIsGeneric ==
    tvariant = "stdio" => auth.msgs \subseteq {<<AuthFailedStdio>>}

\* C20: every call in flight on behalf of a run, the hops of the
\* authentication exchange included, carries a finite deadline whose timer is
\* armed: 30 s for a mutating call, 15 s for a status read or the details
\* fetch.
C20_EveryCallHasDeadline ==
    \A i \in 1..Len(inflight) :
        /\ inflight[i][2] > NoDeadline
        /\ \E j \in 1..Len(timers) : timers[j] = inflight[i]
        /\ inflight[i][1] \in MutatingKinds => inflight[i][2] = 30000
        /\ inflight[i][1] \in ReadKinds => inflight[i][2] = 15000

\* The same statement for the calls made through request() alone.
C20_RequestCallsHaveDeadline ==
    (inflight # <<>> /\ inflight[1][1] # "auth") => C20_EveryCallHasDeadline

----------------------------------------------------------------------------
(* Further claims about the poll loops                                     *)

\* C26: with an observer, pollWithBackoff has invoked it once for every
\* result pollFn has produced, in order, with that result and the 0-based
\* index of the call, the result on which the loop returned or threw
\* included; a call that rejected produced no result and no invocation.
C26_ObserverOncePerPoll ==
    (pvariant = "backoff" /\ onProgress) =>
        /\ Len(pprogress) = Len(presults)
        /\ \A i \in 1..Len(pprogress) : pprogress[i] = <<presults[i], i - 1>>
        /\ Len(presults) = IF ppc = "inflight" \/ (ppc = "raised" /\ psettled.cls # "Error")
                             THEN pcalls - 1 ELSE pcalls
        /\ ppc = "returned" => pprogress[Len(pprogress)][1] = psettled
        /\ (ppc = "raised" /\ psettled.cls = "Error" /\ psettled.msg = "Polling failed")
              => pprogress[Len(pprogress)][1] = psettled.result

\* The loop threw on a Failed result at its third call; the observer saw it.
C26_Witness ==
    /\ pvariant = "backoff" /\ onProgress
    /\ ppc = "raised"
    /\ psettled.cls = "Error" /\ psettled.msg = "Polling failed"
    /\ pcalls = 3
    /\ pprogress[3] = <<psettled.result, 2>>

\* The 1-based attempt numbers that carry a progress line, up to n.
ProgressAttempts(n) == {k \in 1..n : k = 1 \/ k % 5 = 0}
\* The results so far on which the loop neither returned nor threw.
NonTerminalResults ==
    IF ppc \in {"returned", "raised"} /\ psettled.cls \in {"Value", "Error"}
         /\ (psettled.cls = "Error" => psettled.msg = "Polling failed")
      THEN Len(presults) - 1 ELSE Len(presults)

\* C27: pollWithYield has yielded one progress line for attempt 1 and for
\* every attempt that is a multiple of 5 among the attempts whose result was
\* non-terminal, in order, each naming the 1-based attempt and maxAttempts,
\* and no other line; pollWithBackoff yields none.
C27_ProgressThrottled ==
    /\ pvariant = "yield" =>
          /\ Len(pyields) = Cardinality(ProgressAttempts(NonTerminalResults))
          /\ \A j \in 1..Len(pyields) :
                /\ pyields[j] = <<IF j = 1 THEN 1 ELSE 5 * (j - 1), maxAttempts>>
                /\ pyields[j][1] <= NonTerminalResults
    /\ pvariant = "backoff" => pyields = <<>>

\* Stage 4 of a stdio run has returned on its 12th read, after the lines for
\* attempts 1, 5 and 10.
C27_Witness ==
    /\ pvariant = "yield"
    /\ pc = "poll_done"
    /\ ppc = "returned"
    /\ pcalls = 12
    /\ pyields = <<<<1, LongMaxAttempts>>, <<5, LongMaxAttempts>>, <<10, LongMaxAttempts>>>>

----------------------------------------------------------------------------
(* Further claims about createAndDeployApp                                 *)

InFlight(kind) == inflight # <<>> /\ inflight[1][1] = kind
DoneSnapshot(req) ==
    req.kind = "jobStatus" /\ ~IsError(req.outcome) /\ req.outcome.body.status = "Done"

\* C24: a publication POST is in flight only after a job snapshot with
\* status Done was read, and its body is {applicationKey, applicationRevision
\* 1, downloadUrl null} with the appSpec.appKey of that snapshot (a re-issued
\* POST repeats the body); and once a Done snapshot without appSpec.appKey
\* has been read, no publication call exists and no call is issued again.
C24_PublicationAfterDoneWithItsKey ==
    /\ InFlight("publish") =>
          /\ \E i \in 1..Len(netlog) : netlog[i] = [kind |-> "jobStatus", out |-> "Done"]
          /\ inflight[1][3].applicationRevision = 1
          /\ inflight[1][3].downloadUrl = Null
          /\ inflight[1][3].applicationKey \in AppKeys
          /\ lastReq.kind = "jobStatus" =>
                /\ DoneSnapshot(lastReq)
                /\ inflight[1][3].applicationKey = lastReq.outcome.body.appKey
          /\ lastReq.kind = "publish" => inflight[1][3] = lastReq.arg
          /\ lastReq.kind \in {"jobStatus", "publish"}
    /\ (DoneSnapshot(lastReq) /\ lastReq.outcome.body.appKey = Missing) =>
          /\ inflight = <<>>
          /\ \A i \in 1..Len(netlog) : netlog[i].kind # "publish"
          /\ netlog[Len(netlog)] = [kind |-> "jobStatus", out |-> "Done"]
          /\ pc \in {"poll_done", "y_error", "end"}
          /\ pc = "end" => rout = "raised"

\* The publication POST is in flight for the third time with the key of the
\* Done snapshot.
C24_Witness ==
    /\ InFlight("publish")
    /\ rcalls = DefaultMaxRetries
    /\ lastReq.kind = "publish"
    /\ inflight[1][3].applicationKey = "c3d4"
    /\ applicationKey = "c3d4"

\* The hostname with its first '.outsystems.dev' replaced by
\* '-dev.outsystems.app' (unchanged when it has none).
MappedHost(h) ==
    LET at == {i \in 1..Len(h) : h[i] = DevSuffix} IN
    IF at = {} THEN h
    ELSE LET first == CHOOSE i \in at : \A j \in at : i <= j IN
         [i \in 1..Len(h) |-> IF i = first THEN AppSuffix ELSE h[i]]
AllStagesSucceeded ==
    /\ Len(netlog) >= Len(StageOrder) - 1
    /\ netlog[Len(netlog)] = StageOrder[Len(StageOrder)]

\* C23: when every stage has been answered with its success outcome (key,
\* ReadyToGenerate, accepted, Done with appSpec.appKey, key, Finished,
\* details with urlPath P), the run yields the final message and then
\* returns normally; that message is the last one, it carries
\* https://H'/P, H' the configured hostname with '.outsystems.dev' replaced
\* by '-dev.outsystems.app', and no error message was yielded.  A run
\* returns normally in no other case.
C23_SuccessfulRunEndsWithUrl ==
    /\ AllStagesSucceeded =>
          /\ pc \in {"y_url", "end"}
          /\ pc = "end" => rout = "done"
          /\ Tagged("url") = {Len(yields)}
          /\ Tagged("error") = {}
          /\ \E h \in Hostnames :
                yields[Len(yields)].text =
                    <<"https://">> \o MappedHost(h) \o <<"/", lastReq.outcome.body.urlPath>>
          /\ lastReq.outcome.body.urlPath \in UrlPaths
    /\ rout = "done" => AllStagesSucceeded

\* A stdio run returned after the message with
\* https://acme-dev.outsystems.app/my-app.
C23_Witness ==
    /\ tvariant = "stdio"
    /\ rout = "done"
    /\ AllStagesSucceeded
    /\ yields[Len(yields)] =
          Msg("url", <<"https://", "acme", "-dev.outsystems.app", "/", "my-app">>)

\* createOutSystemsAppStream (worker): what the stream handler extracts
\* from the messages of the run.
\* `message.match(/Key: ([a-f0-9-]+)/)`: the capture is the longest run of
\* characters of [a-f0-9-] that follows "Key: "; no match when the first
\* character of the key is outside that class.
KeyCapture(key) ==
    CASE key = "a1b2" -> "a1b2"
      [] key = "c3d4" -> "c3d4"
      [] key = "9f8e" -> "9f8e"
      [] OTHER -> Missing
\* The messages whose text holds "Key: " followed by a value.
KeyMessages == {"generated", "deployStarted"}
KeyMatches(ys) ==
    {i \in 1..Len(ys) : ys[i].tag \in KeyMessages /\ KeyCapture(ys[i].text) # Missing}
UrlMatches(ys) == {i \in 1..Len(ys) : ys[i].tag = "url"}
Latest(S) == CHOOSE i \in S : \A j \in S : j <= i
\* The 'result' event written after the loop over the messages: each
\* match overwrites the previous one.
ResultEvent(ys) ==
    [url |-> IF UrlMatches(ys) = {} THEN Missing ELSE ys[Latest(UrlMatches(ys))].text,
     applicationKey |-> IF KeyMatches(ys) = {} THEN Missing
                        ELSE KeyCapture(ys[Latest(KeyMatches(ys))].text)]
ResultWritten == tvariant = "worker" /\ rout = "done"

\* C30: the 'result' event of a completed worker run carries as
\* applicationKey the appSpec.appKey of the Done snapshot (not the
\* publication key) and as url the final URL that was yielded.
C30_ResultCarriesAppKeyAndUrl ==
    ResultWritten =>
       /\ ResultEvent(yields).applicationKey = applicationKey
       /\ ResultEvent(yields).url = yields[Len(yields)].text

\* What the result event does carry: the final URL, and the key captured
\* from the latest message that has one, which is the publication key
\* whenever that key starts with a character of [a-f0-9-].
C30_ResultCarriesLatestKey ==
    ResultWritten =>
       /\ ResultEvent(yields).url = yields[Len(yields)].text
       /\ ResultEvent(yields).applicationKey =
             IF KeyCapture(publicationKey) # Missing THEN KeyCapture(publicationKey)
             ELSE KeyCapture(applicationKey)
C30_Witness ==
    /\ ResultWritten
    /\ applicationKey = "a1b2"
    /\ publicationKey = "9f8e"
    /\ ResultEvent(yields).applicationKey = "9f8e"

\* C25: every run of createAndDeployApp eventually terminates, with the
\* final URL message or with a raised error, whatever the remote returns.
C25_EveryRunTerminates == <>(pc = "end")

\* The part of C25 about the bounds: a run never makes more than 60 status
\* reads in stage 2, 120 in each of stages 4 and 6, or 3 attempts of a
\* mutating call, also when the remote shows a status outside the enum.
C25_BoundedReadsAndAttempts ==
    /\ pc = "poll_ready" => pcalls <= 60
    /\ pc \in {"poll_done", "poll_pub"} => pcalls <= 120
    /\ pc \in AwaitMutating => rcalls <= 3
\* A run that is not waiting for the authentication exchange terminates or
\* comes to wait for it.
C25_TerminatesUnlessAuthPending ==
    (pc # "await_token") ~> (pc = "end" \/ pc = "await_token")
\* A polling loop read a status outside the enum 60 / 120 times and gave up.
C25_UnknownStatusExhausts ==
    /\ pc \in AwaitPoll
    /\ ppc = "raised"
    /\ pcalls = maxAttempts
    /\ \A i \in 1..Len(presults) : presults[i].body.status = UnknownStatus

----------------------------------------------------------------------------
(* Further claims about the authentication exchange                        *)

\* C28: within one exchange every cookie set by the response of any hop is
\* sent on every later request of that exchange, the identity-provider
\* config fetch and the federated login included, and no cookie of one
\* exchange is sent in another.
C28_SessionContinuity ==
    \A i \in 1..Len(auth.reqs) :
       /\ auth.reqs[i].owed \subseteq auth.reqs[i].sent
       /\ \A ck \in auth.reqs[i].sent : ck[1] = auth.n

\* What holds: the hops made through the session send the cookies that
\* earlier session hops were answered with (stdio: all of them; worker:
\* those of the form name=value), cognitoLogin's two hops send none, and no
\* cookie crosses exchanges.
C28_SessionHopsShareCookies ==
    \A i \in 1..Len(auth.reqs) :
       LET req == auth.reqs[i] IN
       /\ req.sent = IF UsesJar(req.hop)
                     THEN {ck \in req.owed : UsesJar(ck[2]) /\ Stores(tvariant, ck[3])}
                     ELSE {}
       /\ \A ck \in req.sent : ck[1] = auth.n
\* The authorization request was answered with a cookie, and the config
\* fetch went out without it, in the second exchange.
C28_CookieNotSent ==
    /\ auth.n = 2
    /\ \E i \in 1..Len(auth.reqs) :
          /\ auth.reqs[i].hop = "FetchIdPConfig"
          /\ Cookie(2, "InitiateAuthorization", "plain") \in auth.reqs[i].owed
          /\ auth.reqs[i].sent = {}

----------------------------------------------------------------------------
(* Claims about the front ends                                             *)

\* A string of 10 to 500 characters.
ValidPrompt(p) == p.type = "string" /\ p.len >= 10 /\ p.len <= 500
\* The latest tool call or request came to the validation of `prompt`.
PromptValidated ==
    /\ srv.last.tool = "createOutSystemsApp"
    /\ srv.last.params
    /\ srv.last.front = "worker" => srv.last.status # 401
NothingStarted ==
    /\ srv.run = "none"
    /\ pc = "start" /\ yields = <<>>
    /\ nexch = 0 /\ tcall[RunCaller] = NoCall
    /\ netlog = <<>> /\ inflight = <<>>

\* C21: a prompt is accepted iff it is a string of 10 to 500 characters
\* (inclusive), the stdio schema and the worker router agree on every
\* input, and a rejected prompt leads to no token acquisition and no
\* remote call.
C21_PromptValidation ==
    /\ \A p \in Prompts :
          /\ ZodAccepts(p) = ValidPrompt(p)
          /\ WorkerAccepts(p) = ValidPrompt(p)
    /\ PromptValidated =>
          /\ ValidPrompt(srv.last.prompt) <=> srv.last.handler = "createOutSystemsApp"
          /\ ~ValidPrompt(srv.last.prompt) => NothingStarted
    /\ srv.last.handler # "createOutSystemsApp" => NothingStarted
\* The worker has answered 400 to an authorized createOutSystemsApp request
\* whose prompt has 501 characters.
C21_Witness ==
    /\ srv.last.front = "worker"
    /\ PromptValidated
    /\ srv.last.prompt = [type |-> "string", len |-> 501]
    /\ srv.last.status = 400
    /\ NothingStarted

InvokeRoute == srv.last.front = "worker" /\ srv.last.method = "POST" /\ srv.last.path = "/mcp/invoke"
\* The Authorization header is 'Bearer <t>' with t the (non-empty) secret.
ExactBearer ==
    /\ srv.secret.set /\ srv.secret.value # ""
    /\ srv.last.header = <<"Bearer", srv.secret.value>>

\* C22: a POST to /mcp/invoke reaches a tool handler only if its
\* Authorization header is 'Bearer <t>' with t = MCP_SERVER_SECRET; every
\* other request to that route is answered 401 without a tool invocation,
\* whatever the secret (unset and empty included); GET /health and
\* GET /metrics answer 200 without authorization; unknown routes answer 404.
C22_BearerGate ==
    /\ InvokeRoute =>
          /\ srv.last.handler # "none" => ExactBearer
          /\ ~ExactBearer => srv.last.status = 401 /\ srv.last.handler = "none"
    /\ srv.last.front = "worker" /\ srv.last.method = "GET"
          /\ srv.last.path \in {"/health", "/metrics"} => srv.last.status = 200
    /\ srv.last.front = "worker" /\ srv.last.method # "OPTIONS"
          /\ srv.last.path = "/other" => srv.last.status = 404

\* What the gate does: it compares the first two space-separated pieces of
\* the header with 'Bearer' and the secret and ignores any further piece.
FirstPiecesBearer ==
    /\ srv.secret.set /\ srv.secret.value # ""
    /\ Len(srv.last.header) >= 2
    /\ srv.last.header[1] = "Bearer"
    /\ srv.last.header[2] = srv.secret.value
C22_GateOnFirstTwoPieces ==
    /\ InvokeRoute =>
          /\ srv.last.handler # "none" => FirstPiecesBearer
          /\ ~FirstPiecesBearer => srv.last.status = 401 /\ srv.last.handler = "none"
    /\ srv.last.front = "worker" /\ srv.last.method = "GET"
          /\ srv.last.path \in {"/health", "/metrics"} => srv.last.status = 200
    /\ srv.last.front = "worker" /\ srv.last.method # "OPTIONS"
          /\ srv.last.path = "/other" => srv.last.status = 404
\* 'Bearer s3cret Basic' was let through to the tool handler.
C22_TrailingPieceAccepted ==
    /\ InvokeRoute
    /\ srv.last.header = <<"Bearer", "s3cret", "Basic">>
    /\ srv.last.handler = "healthCheck"

\* C29: after configureOutSystemsEnvironment has stored a configuration
\* (environment variables unset), createOutSystemsApp passes the
\* configuration check and the run works against the configured hostname
\* and credentials.
C29_ConfiguredRunUsesConfiguration ==
    (tvariant = "stdio" /\ srv.runtimeConfig /\ ~hostSet /\ srv.run = "started" /\ pc # "start")
       => /\ pc \notin {"y_nohost"}
          /\ rraised # MsgNoHost

\* What holds: the handler starts the run iff hasConfig(), which a stored
\* configuration satisfies and which after clearOutSystemsConfiguration is
\* the four environment variables being set; the run itself reads
\* OS_HOSTNAME from the environment, whatever is stored.
C29_ConfigCheckOnly ==
    /\ tvariant = "stdio" /\ srv.run = "started" => hasConfig
    /\ srv.last.outcome = "not_configured" => ~hasConfig
    /\ srv.last.tool = "configureOutSystemsEnvironment" => hasConfig
    /\ srv.last.tool = "clearOutSystemsConfiguration" =>
          (hasConfig <=> (hostSet /\ envCreds /\ srv.devEnvId))
    /\ (srv.run = "started" /\ pc # "start") => (rraised = MsgNoHost <=> ~hostSet)
\* Configured at run time, nothing in the environment: the run has ended
\* on the missing OS_HOSTNAME.
C29_ConfiguredRunFails ==
    /\ tvariant = "stdio" /\ srv.runtimeConfig /\ ~hostSet /\ ~envCreds
    /\ srv.run = "started"
    /\ pc = "end" /\ rout = "raised" /\ rraised = MsgNoHost

----------------------------------------------------------------------------
(* Claims about the run and the token cache together                       *)

\* The cache as the run found it: empty, or the entry of the earlier run.
CacheAsFound ==
    cachedToken = IF completed = {} THEN NullToken
                  ELSE CacheEntry(WarmToken, WarmExpiresIn)

\* C39: without a hostname createAndDeployApp yields exactly one message,
\* the sanitized one, and then raises; it acquires no token, leaves the
\* token cache as it was and issues no network call.
C39_MissingHostname ==
    ~hostSet =>
       /\ pc \in {"start", "y_nohost", "end"}
       /\ pc = "start" => yields = <<>>
       /\ pc # "start" => yields = <<Msg("sanitized", MsgUnexpected)>>
       /\ pc = "end" => rout = "raised" /\ rraised = MsgNoHost
       /\ rout # "done"
       /\ tcall[RunCaller] = NoCall /\ nexch = 0 /\ token = Undefined
       /\ CacheAsFound
       /\ netlog = <<>> /\ inflight = <<>> /\ timers = <<>>
\* A worker run without hostname has raised, the cache still holding the
\* earlier run's entry.
C39_Witness ==
    /\ ~hostSet /\ tvariant = "worker"
    /\ pc = "end" /\ rout = "raised"
    /\ Len(yields) = 1
    /\ cachedToken # NullToken

----------------------------------------------------------------------------
(* Further claims about the token cache                                    *)

\* Caller c's call raises in this step.
Raises(c) == tcall'[c] # tcall[c] /\ tcall'[c].pc = "raised"

\* C33 as stated: when a call of getValidOutSystemsToken has raised, the
\* cache entry is exactly what it was before the call.
C33_Original_CacheAsBeforeTheCall ==
    \A c \in Callers : tcall[c].pc = "raised" => tcall[c].after = tcall[c].before

\* C33: a call that raises (its exchange failed, or in the worker the
\* credentials are missing) writes nothing to the cache: the entry is the
\* one of the moment before the call raised, which is the entry from before
\* the call unless another caller's exchange completed in between; in the
\* former case the entry is not valid, so the next call misses again.
C33_FailedRefreshWritesNothing ==
    [][\A c \in Callers :
         Raises(c) =>
            /\ cachedToken' = cachedToken
            /\ completed' = completed
            /\ tcall'[c].after = cachedToken
            /\ tcall'[c].result = Undefined
            /\ \/ cachedToken = tcall'[c].before /\ ~CacheValid(cachedToken', clock')
               \/ \E e \in completed :
                     /\ e.id # exch[c].id
                     /\ cachedToken = CacheEntry(e.token, e.now + e.expiresIn)]_vars
\* A call has raised after a failed exchange, the stale entry still cached.
C33_Witness ==
    \E c \in Callers :
       /\ tcall[c].pc = "raised" /\ exch[c].state = "failed"
       /\ ~cachedToken.null
       /\ cachedToken = tcall[c].before
       /\ ~CacheValid(cachedToken, clock)

\* C34: getValidOutSystemsToken never caches or returns an absent token
\* (the exchange raises when the token endpoint's response has no
\* access_token).
C34_NoAbsentToken ==
    /\ ~cachedToken.null => cachedToken.token # Undefined
    /\ \A c \in Callers : tcall[c].pc = "returned" => tcall[c].result # Undefined
    /\ \A e \in completed : e.token # Undefined
\* The parenthesis of C34 (fails for an expires_in of 0, which `||` takes
\* for absent).
C34_ExpiresInAsSent ==
    \A c \in Callers : \A data \in TokenData(c) :
       TokenResponse(data).expiresIn =
          IF data.has_expires THEN data.expires_in ELSE FallbackExpiresIn

\* An exchange whose token response had no access_token has been cached
\* and returned to the caller.
C34_AbsentTokenCached ==
    \E c \in Callers :
       /\ tcall[c].pc = "returned" /\ ~tcall[c].hit
       /\ tcall[c].result = Undefined
       /\ cachedToken = CacheEntry(Undefined, tcall[c].now + 900)

----------------------------------------------------------------------------
(* The token during a run                                                  *)

\* Whole milliseconds slept in the current polling loop, each sleep rounded
\* down: no more than the time that has passed since the token was
\* obtained.
RECURSIVE SleptMs(_)
SleptMs(sleeps) ==
    IF sleeps = <<>> THEN 0
    ELSE (Head(sleeps)[1] \div Head(sleeps)[2]) + SleptMs(Tail(sleeps))
\* The absolute expiry (s) of the token the run obtained, as cached.
RunTokenExpiresAt == tcall[RunCaller].after.expiresAt

\* C31: every API request of a run is issued before the absolute expiry of
\* the bearer token it carries.
C31_RequestsCarryUnexpiredToken ==
    (pc \in AwaitPoll /\ inflight # <<>>) =>
       tcall[RunCaller].now * 1000 + SleptMs(psleeps) < RunTokenExpiresAt * 1000

\* What holds: the run obtains its token once, before step 1, and sends
\* that token with every request; the only exchange of the run is the one
\* of that call.
C31_TokenObtainedOnce ==
    /\ inflight # <<>> /\ inflight[1][1] # "auth" =>
          /\ tcall[RunCaller].pc = "returned"
          /\ token = tcall[RunCaller].result
          /\ token = tcall[RunCaller].after.token
    /\ nexch <= 1
\* A status read of step 4 goes out 900 s or more after the run obtained a
\* token that expires after 900 s.
C31_ExpiredTokenSent ==
    /\ pc = "poll_done" /\ inflight # <<>>
    /\ RunTokenExpiresAt = tcall[RunCaller].now + 900
    /\ SleptMs(psleeps) >= 900 * 1000


----------------------------------------------------------------------------
(* Claims about what the mutating requests create on the remote side      *)

\* C32: at-most-once creation.  Whatever transient failures occur, the
\* remote side processes at most one job creation, one generation trigger
\* and one publication start per run (each is requested by one withRetry
\* invocation), and a mutating request it has processed is not issued a
\* second time.
C32_AtMostOnceCreation ==
    /\ remoteDone <= 1
    /\ (pc \in AwaitMutating /\ inflight # <<>>) => remoteDone = 0

\* What withRetry does bound: no more than maxRetries requests of a kind
\* go out, so the remote side processes at most that many.
C32_AtMostMaxRetriesCreations ==
    /\ remoteDone <= DefaultMaxRetries
    /\ remoteDone <= rcalls

\* A run that created two jobs: the first POST was processed and timed out
\* on the client, withRetry issued it again.
C32_JobCreatedTwice ==
    /\ pc = "await_create" /\ rpc = "returned"
    /\ remoteDone = 2
    /\ Len(thrown) >= 1 /\ thrown[1].cls = "TimeoutError"

----------------------------------------------------------------------------
(* createOutSystemsAppStream: the event stream of a worker run            *)

\* The messages that contain 'Step' ("Step k/7: ..."), and their k.
StepMessages == {"step1", "step2", "step3", "step4", "step5", "step6", "step7"}
StepOf(tag) ==
    CASE tag = "step1" -> 1 [] tag = "step2" -> 2 [] tag = "step3" -> 3
      [] tag = "step4" -> 4 [] tag = "step5" -> 5 [] tag = "step6" -> 6
      [] OTHER -> 7
ProgressTotal == 7

\* `stepNumber` when message i is written: it starts at 1 and goes up by one
\* after every message that contains 'Step'.
stepNumber(ys, i) ==
    1 + Cardinality({j \in 1..(i - 1) : ys[j].tag \in StepMessages})

\* The 'progress' events: the start event, then one event per message.
startEvent ==
    [type |-> "progress", message |-> Msg("start", ""), step |-> 0, total |-> ProgressTotal]
progressEvent(ys, i) ==
    [type |-> "progress", message |-> ys[i], step |-> stepNumber(ys, i),
     total |-> ProgressTotal]
ProgressEvents(ys) == <<startEvent>> \o [i \in 1..Len(ys) |-> progressEvent(ys, i)]

\* The event written after the loop, or in the catch block:
\* `error.message || 'An unexpected error occurred'`.
MsgStreamFallback == "An unexpected error occurred"
errorEvent(raised) ==
    [type |-> "error", error |-> IF raised = "" THEN MsgStreamFallback ELSE raised,
     status |-> "failed"]
resultEvent(ys) ==
    [type |-> "result", url |-> ResultEvent(ys).url,
     applicationKey |-> ResultEvent(ys).applicationKey, status |-> "completed"]
TerminalEvents(ys, out, raised) ==
    CASE out = "done" -> <<resultEvent(ys)>>
      [] out = "raised" -> <<errorEvent(raised)>>
      [] OTHER -> <<>>

\* The events written so far for the run in progress; the writer is closed
\* (finally) once the terminal event is written.
StreamEvents == ProgressEvents(yields) \o TerminalEvents(yields, rout, rraised)
StreamClosed == rout # "running"
TerminalAt(ev) == {i \in 1..Len(ev) : ev[i].type \in {"result", "error"}}

\* C37: a closed stream holds exactly one terminal event, its last one:
\* 'result' iff the orchestration completed and yielded a final URL,
\* 'error' iff it raised; the error event carries the sanitized message of
\* the error the orchestration caught, and nothing else.
C37_OneTerminalEvent ==
    (tvariant = "worker" /\ StreamClosed) =>
       LET ev == StreamEvents
           last == ev[Len(ev)]
       IN /\ TerminalAt(ev) = {Len(ev)}
          /\ last.type = "result" <=> (rout = "done" /\ UrlMatches(yields) # {})
          /\ last.type = "error" <=> rout = "raised"
          /\ last.type = "error" => last.error = sanitizeErrorMessage(caught)

\* The part of C37 about the shape of the stream: no terminal event while
\* the run is in progress, exactly one at the end of a closed stream, of
\* the type that matches the outcome.
C37_ExactlyOneTerminalLast ==
    tvariant = "worker" =>
       LET ev == StreamEvents IN
       /\ ~StreamClosed => TerminalAt(ev) = {}
       /\ StreamClosed =>
             /\ TerminalAt(ev) = {Len(ev)}
             /\ ev[Len(ev)].type = "result" <=> (rout = "done" /\ UrlMatches(yields) # {})
             /\ ev[Len(ev)].type = "error" <=> rout = "raised"
             /\ (hostSet /\ rout = "raised") =>
                   ev[Len(ev)].error = sanitizeErrorMessage(caught)

\* A stream whose error event carries the text of the configuration error
\* while the message before it is the sanitized one.
C37_RawMessageInErrorEvent ==
    /\ tvariant = "worker" /\ StreamClosed
    /\ StreamEvents[Len(StreamEvents)] =
          [type |-> "error", error |-> MsgNoHost, status |-> "failed"]
    /\ StreamEvents[Len(StreamEvents) - 1].message = Msg("sanitized", MsgUnexpected)

\* C38: every 'progress' event has total = 7 and 0 <= step <= total, step
\* never decreases along the stream, and the message 'Step k/7' is reported
\* with step = k.
C38_ProgressSteps ==
    tvariant = "worker" =>
       LET ev == ProgressEvents(yields) IN
       /\ \A i \in 1..Len(ev) :
             /\ ev[i].total = 7
             /\ 0 <= ev[i].step /\ ev[i].step <= ev[i].total
             /\ ev[i].message.tag \in StepMessages => ev[i].step = StepOf(ev[i].message.tag)
       /\ \A i \in 1..(Len(ev) - 1) : ev[i].step <= ev[i + 1].step

\* What holds of the steps: total 7, no decrease, 'Step k/7' with step k,
\* and a step of at most total + 1.
C38_StepsUpToEight ==
    tvariant = "worker" =>
       LET ev == ProgressEvents(yields) IN
       /\ \A i \in 1..Len(ev) :
             /\ ev[i].total = 7
             /\ 0 <= ev[i].step /\ ev[i].step <= ev[i].total + 1
             /\ ev[i].message.tag \in StepMessages => ev[i].step = StepOf(ev[i].message.tag)
       /\ \A i \in 1..(Len(ev) - 1) : ev[i].step <= ev[i + 1].step

\* The final URL message of a completed run is reported as step 8 of 7.
C38_StepEightOfSeven ==
    /\ tvariant = "worker" /\ rout = "done"
    /\ LET ev == ProgressEvents(yields) IN
          /\ ev[Len(ev)].message.tag = "url"
          /\ ev[Len(ev)].step = 8 /\ ev[Len(ev)].total = 7

----------------------------------------------------------------------------
(* pollWithYield and pollWithBackoff on the same results                  *)

\* The two loops as functions of what pollFn settles with, in order: the
\* number of pollFn calls, the intervals slept, the progress lines yielded
\* and how the loop ended ("pending": it awaits the next pollFn()).  The
\* options and predicates are those of the invocation in progress.
LoopStart ==
    [calls |-> 0, sleeps |-> <<>>, yields |-> <<>>, state |-> "pending", settled |-> NoValue]

RECURSIVE BackoffLoop(_, _, _, _)
BackoffLoop(outs, iv, att, acc) ==
    IF ~PollLoopTest(att, maxAttempts)
      THEN [acc EXCEPT !.state = "raised", !.settled = PollTimeoutError(att)]
    ELSE IF outs = <<>> THEN [acc EXCEPT !.calls = @ + 1]
    ELSE LET result == Head(outs)
             called == [acc EXCEPT !.calls = @ + 1]
         IN IF IsError(result)
              THEN [called EXCEPT !.state = "raised", !.settled = result]
            ELSE IF CheckFn(result)
              THEN [called EXCEPT !.state = "returned", !.settled = result]
            ELSE IF FailFn(result)
              THEN [called EXCEPT !.state = "raised", !.settled = PollFailedError(result)]
            ELSE BackoffLoop(Tail(outs), NextInterval(iv, maxInterval), att + 1,
                             [called EXCEPT !.sleeps = Append(@, iv)])
pollWithBackoff(outs) == BackoffLoop(outs, Num(initialInterval), 0, LoopStart)

RECURSIVE YieldLoop(_, _, _, _)
YieldLoop(outs, iv, att, acc) ==
    IF ~PollLoopTest(att, maxAttempts)
      THEN [acc EXCEPT !.state = "raised", !.settled = PollTimeoutError(att)]
    ELSE IF outs = <<>> THEN [acc EXCEPT !.calls = @ + 1]
    ELSE LET result == Head(outs)
             called == [acc EXCEPT !.calls = @ + 1]
         IN IF IsError(result)
              THEN [called EXCEPT !.state = "raised", !.settled = result]
            ELSE IF CheckFn(result)
              THEN [called EXCEPT !.state = "returned", !.settled = result]
            ELSE IF FailFn(result)
              THEN [called EXCEPT !.state = "raised", !.settled = PollFailedError(result)]
            ELSE LET yielded ==
                       IF YieldsProgress(att)
                         THEN [called EXCEPT !.yields = Append(@, <<att + 1, maxAttempts>>)]
                         ELSE called
                 IN YieldLoop(Tail(outs), NextInterval(iv, maxInterval), att + 1,
                              [yielded EXCEPT !.sleeps = Append(@, iv)])
pollWithYield(outs) == YieldLoop(outs, Num(initialInterval), 0, LoopStart)

\* What pollFn settled with during the invocation in progress: the results,
\* and the rejection that ended the loop if there was one.
PollRejected == ppc = "raised" /\ psettled.cls # "Error"
PollInputs == IF PollRejected THEN Append(presults, psettled) ELSE presults
PollEnded == ppc \in {"returned", "raised"}

\* What the two loops have in common, and what the invocation in progress
\* has done.
Common(r) == [calls |-> r.calls, sleeps |-> r.sleeps, state |-> r.state, settled |-> r.settled]
Observed == [calls |-> pcalls, sleeps |-> psleeps, state |-> ppc, settled |-> psettled]
SameLoops(y, b) ==
    /\ Common(y) = Common(b)
    /\ b.yields = <<>>
    /\ Common(b) = Observed
    /\ pyields = IF pvariant = "yield" THEN y.yields ELSE b.yields

C36_RunLoopsAgree ==
    (pc \in AwaitPoll /\ PollEnded /\ (pcalls <= 10 \/ pcalls = maxAttempts)) =>
       SameLoops(pollWithYield(PollInputs), pollWithBackoff(PollInputs))

====
